---------------------------- MODULE Spec2Model ----------------------------
(***************************************************************************)
(* Simulador de aeropuerto (ProyectoAeropuerto): ControladorSimulacion,    *)
(* GestorVuelos, GestorPistas, Vuelo y Pista.                              *)
(*                                                                         *)
(* Identifiers of flights and runways are strings in the program; here     *)
(* they are the integers 1..n, whose numeric order stands for the lexical  *)
(* order of the strings ("V1" < "V2" < "V3").  A Python reference to a     *)
(* Vuelo object is the flight's id: every flight of a run has its own id   *)
(* (the ledger's documented assumption).  A dict is the sequence of its    *)
(* values in insertion order, which is the order Python iterates it in.    *)
(***************************************************************************)
EXTENDS Integers, Sequences, FiniteSets, TLC

\* ------------------------------------------------------------------ bounds
MaxVuelos == 2
MaxCola == 3
MaxPistas == 2
MaxTiempo == 3
MaxN == 2
MaxFin == 1
MaxFilas == 3
MaxReloj == 6

\* ------------------------------------------------------- program constants
None == -1
UmbralCombustible == 5
PrioridadEmergencia == 2

IdsVuelo == 1..MaxVuelos
IdsPista == 1..MaxPistas
Tipos == {"ATERRIZAJE", "DESPEGUE"}

VARIABLES
    tiempo_actual,       \* ControladorSimulacion.tiempo_actual
    en_simulacion,       \* ControladorSimulacion.en_simulacion
    stop_event,          \* ControladorSimulacion._stop_event (set / clear)
    vuelos_activos,      \* GestorVuelos.vuelos_activos, values in dict order
    cola_aterrizaje,     \* GestorVuelos.cola_aterrizaje, ids
    cola_despegue,       \* GestorVuelos.cola_despegue, ids
    vuelos_completados,  \* GestorVuelos.vuelos_completados, ids
    pistas,              \* GestorPistas.pistas, values in dict order
    eventos,             \* the lines GestorLogs appended to eventos.log
    hilo,                \* the background thread _hilo_simulacion and its position
    pcs,                 \* per calling context: position inside avanzar_minuto
    ult,                 \* the last call that returns a value, and the value
    hist                 \* history: counters and flags the properties speak about

vars == <<tiempo_actual, en_simulacion, stop_event, vuelos_activos,
          cola_aterrizaje, cola_despegue, vuelos_completados, pistas,
          eventos, hilo, pcs, ult, hist>>

\* ----------------------------------------------------------------- helpers
Rango(s) == {s[i] : i \in DOMAIN s}

Contiene(s, x) == \E i \in DOMAIN s : s[i] = x

\* deque.remove(x) / list.remove(x): drops the first occurrence of x
Quitar(s, x) ==
    IF ~Contiene(s, x) THEN s
    ELSE LET k == CHOOSE i \in DOMAIN s : s[i] = x /\ \A j \in 1..(i-1) : s[j] # x
         IN  [i \in 1..(Len(s)-1) |-> IF i < k THEN s[i] ELSE s[i+1]]

Max0(a) == IF a > 0 THEN a ELSE 0

\* ------------------------------------------------------------------- Vuelo
\* Vuelo.__init__
NuevoVuelo(id, tipo, eta, etd, prioridad, combustible, estado) ==
    [id_vuelo       |-> id,
     tipo           |-> tipo,
     eta            |-> IF tipo = "ATERRIZAJE" THEN eta ELSE None,
     etd            |-> IF tipo = "DESPEGUE" THEN etd ELSE None,
     prioridad      |-> prioridad,
     combustible    |-> IF tipo = "ATERRIZAJE" THEN combustible ELSE None,
     estado         |-> estado,
     pista_asignada |-> None,
     tiempo_inicio  |-> None,
     tiempo_fin     |-> None]

get_tiempo_previsto(v) == IF v.tipo = "ATERRIZAJE" THEN v.eta ELSE v.etd

tiene_combustible_critico(v) ==
    IF v.tipo # "ATERRIZAJE" THEN FALSE
    ELSE IF v.combustible = None THEN FALSE
    ELSE v.combustible <= UmbralCombustible

\* ------------------------------------------------------------------- Pista
\* Pista.__init__
NuevaPista(id, tiempo_uso, habilitada) ==
    [id_pista            |-> id,
     tiempo_uso          |-> tiempo_uso,
     habilitada          |-> habilitada,
     libre               |-> TRUE,
     vuelo_actual        |-> None,
     tiempo_liberacion   |-> None,
     operaciones_totales |-> 0]

\* asignar that forgets the hold time of the runway
asignar_sin_duracion(p, id_vuelo, t) ==
    [p EXCEPT !.libre = FALSE,
              !.vuelo_actual = id_vuelo,
              !.tiempo_liberacion = t,
              !.operaciones_totales = p.operaciones_totales + 1]

\* Pista.asignar
asignar(p, id_vuelo, t) ==
    [p EXCEPT !.libre = FALSE,
              !.vuelo_actual = id_vuelo,
              !.tiempo_liberacion = t + p.tiempo_uso,
              !.operaciones_totales = p.operaciones_totales + 1]

\* liberar that frees the runway and keeps its occupant
liberar_sin_limpiar(p) == [p EXCEPT !.libre = TRUE, !.tiempo_liberacion = None]

\* Pista.liberar
liberar(p) ==
    [p EXCEPT !.libre = TRUE, !.vuelo_actual = None, !.tiempo_liberacion = None]

\* esta_disponible without the test of habilitada
esta_disponible_sin_habilitada(p, t) ==
    IF p.libre THEN TRUE
    ELSE IF p.tiempo_liberacion # None /\ t >= p.tiempo_liberacion THEN TRUE
    ELSE FALSE

\* Pista.esta_disponible
esta_disponible(p, t) ==
    IF p.habilitada = 0 THEN FALSE
    ELSE IF p.libre THEN TRUE
    ELSE IF p.tiempo_liberacion # None /\ t >= p.tiempo_liberacion THEN TRUE
    ELSE FALSE


\* ----------------------------------------------------------------- eventos
\* One line of eventos.log (GestorLogs.registrar_*): the fields the line prints.
Evento(t, ev, id_vuelo, id_pista, tipo, n, m) ==
    [t |-> t, ev |-> ev, id_vuelo |-> id_vuelo, id_pista |-> id_pista,
     tipo |-> tipo, n |-> n, m |-> m]

registrar_carga_inicial(c, t, num_vuelos, num_pistas) ==
    [c EXCEPT !.eventos =
        Append(@, Evento(t, "CARGA_INICIAL", None, None, "-", num_vuelos, num_pistas))]

registrar_en_cola(c, t, id_vuelo, tipo) ==
    [c EXCEPT !.eventos = Append(@, Evento(t, "EN_COLA", id_vuelo, None, tipo, None, None))]

registrar_asignacion(c, t, id_vuelo, id_pista, tipo) ==
    [c EXCEPT !.eventos =
        Append(@, Evento(t, "ASIGNACION", id_vuelo, id_pista, tipo, None, None))]

registrar_completado(c, t, id_vuelo, id_pista) ==
    [c EXCEPT !.eventos =
        Append(@, Evento(t, "COMPLETADO", id_vuelo, id_pista, "-", None, None))]

registrar_emergencia(c, t, id_vuelo, prioridad) ==
    [c EXCEPT !.eventos =
        Append(@, Evento(t, "EMERGENCIA", id_vuelo, None, "-", prioridad, None))]

registrar_fin_simulacion(c, t, vuelos_atendidos) ==
    [c EXCEPT !.eventos =
        Append(@, Evento(t, "FIN_SIMULACION", None, None, "-", vuelos_atendidos, None))]

\* ------------------------------------------------------------ GestorVuelos
\* vuelos_activos.get(id) is not None
TieneVuelo(c, id) == \E i \in DOMAIN c.vuelos_activos : c.vuelos_activos[i].id_vuelo = id

IndiceVuelo(c, id) == CHOOSE i \in DOMAIN c.vuelos_activos : c.vuelos_activos[i].id_vuelo = id

\* vuelos_activos[id]
VueloDe(c, id) == c.vuelos_activos[IndiceVuelo(c, id)]

\* GestorVuelos.añadir_vuelo
anadir_vuelo(c, v) ==
    LET conVuelo ==
            IF TieneVuelo(c, v.id_vuelo)
            THEN [c EXCEPT !.vuelos_activos[IndiceVuelo(c, v.id_vuelo)] = v]
            ELSE [c EXCEPT !.vuelos_activos = Append(@, v)]
    IN  IF v.tipo = "ATERRIZAJE"
        THEN [conVuelo EXCEPT !.cola_aterrizaje = Append(@, v.id_vuelo)]
        ELSE [conVuelo EXCEPT !.cola_despegue = Append(@, v.id_vuelo)]

\* the sort key with the identifiers in ascending order
clave_id_ascendente(v, t) ==
    LET previsto == IF get_tiempo_previsto(v) = None THEN 0 ELSE get_tiempo_previsto(v)
    IN  <<v.prioridad,
          IF tiene_combustible_critico(v) THEN 1 ELSE 0,
          Max0(t - previsto),
          0 - v.id_vuelo>>

\* the sort key of _obtener_vuelo_prioritario
clave(v, t) ==
    LET previsto == IF get_tiempo_previsto(v) = None THEN 0 ELSE get_tiempo_previsto(v)
    IN  <<v.prioridad,
          IF tiene_combustible_critico(v) THEN 1 ELSE 0,
          Max0(t - previsto),
          v.id_vuelo>>

\* Python's order on tuples of equal length: a < b
TuplaMenor(a, b) ==
    \E i \in DOMAIN a :
        /\ a[i] < b[i]
        /\ \A j \in 1..(i-1) : a[j] = b[j]

\* list.sort(key=clave, reverse=True) is stable: x goes after every element whose
\* key is not smaller than its own.
InsertarDesc(c, orden, x, t) ==
    LET kx  == clave(VueloDe(c, x), t)
        pos == Cardinality({i \in DOMAIN orden :
                               ~TuplaMenor(clave(VueloDe(c, orden[i]), t), kx)})
    IN  [i \in 1..(Len(orden)+1) |->
            IF i <= pos THEN orden[i]
            ELSE IF i = pos + 1 THEN x
            ELSE orden[i-1]]

RECURSIVE OrdenarDesc(_, _, _)
OrdenarDesc(c, cola, t) ==
    IF cola = <<>> THEN <<>>
    ELSE InsertarDesc(c, OrdenarDesc(c, SubSeq(cola, 1, Len(cola)-1), t),
                      cola[Len(cola)], t)

\* the queue served in arrival order
primero_de_la_cola(c, cola, t) ==
    IF cola = <<>> THEN None ELSE cola[1]

\* GestorVuelos._obtener_vuelo_prioritario
obtener_vuelo_prioritario(c, cola, t) ==
    IF cola = <<>> THEN None ELSE OrdenarDesc(c, cola, t)[1]

\* the best flight of the two queues taken as one
seleccionar_el_mejor_de_todos(c, t) ==
    IF c.cola_aterrizaje \o c.cola_despegue = <<>> THEN None
    ELSE OrdenarDesc(c, c.cola_aterrizaje \o c.cola_despegue, t)[1]

\* the selection that never looks at the take-off queue
seleccionar_solo_aterrizajes(c, t) ==
    obtener_vuelo_prioritario(c, c.cola_aterrizaje, t)

\* GestorVuelos.seleccionar_vuelo_para_pista
seleccionar_vuelo_para_pista(c, t) ==
    LET vuelo == obtener_vuelo_prioritario(c, c.cola_aterrizaje, t)
    IN  IF vuelo # None THEN vuelo
        ELSE obtener_vuelo_prioritario(c, c.cola_despegue, t)

\* asignar_vuelo that puts the priority of the flight back to 0
asignar_vuelo_y_degradar(c, id, t) ==
    IF ~TieneVuelo(c, id) THEN c
    ELSE [c EXCEPT
            !.vuelos_activos[IndiceVuelo(c, id)] =
                [@ EXCEPT !.estado = "ASIGNADO", !.tiempo_inicio = t, !.prioridad = 0],
            !.cola_aterrizaje = Quitar(@, id),
            !.cola_despegue = Quitar(@, id)]

\* GestorVuelos.asignar_vuelo
asignar_vuelo(c, id, t) ==
    IF ~TieneVuelo(c, id) THEN c
    ELSE [c EXCEPT
            !.vuelos_activos[IndiceVuelo(c, id)] =
                [@ EXCEPT !.estado = "ASIGNADO", !.tiempo_inicio = t],
            !.cola_aterrizaje = Quitar(@, id),
            !.cola_despegue = Quitar(@, id)]

\* completar_vuelo that leaves the list of completed flights as it was
completar_vuelo_sin_lista(c, id, t) ==
    IF ~TieneVuelo(c, id) THEN c
    ELSE [c EXCEPT
            !.vuelos_activos[IndiceVuelo(c, id)] =
                [@ EXCEPT !.estado = "COMPLETADO", !.tiempo_fin = t]]

\* GestorVuelos.completar_vuelo
completar_vuelo(c, id, t) ==
    IF ~TieneVuelo(c, id) THEN c
    ELSE [c EXCEPT
            !.vuelos_activos[IndiceVuelo(c, id)] =
                [@ EXCEPT !.estado = "COMPLETADO", !.tiempo_fin = t],
            !.vuelos_completados =
                IF Contiene(@, id) THEN @ ELSE Append(@, id)]

\* the total as the sum of the three other counts
contar_sumando_estados(c) ==
    LET en_cola      == Len(c.cola_aterrizaje) + Len(c.cola_despegue)
        en_operacion == Cardinality({i \in DOMAIN c.vuelos_activos :
                                        c.vuelos_activos[i].estado = "ASIGNADO"})
        completados  == Len(c.vuelos_completados)
    IN  [en_cola      |-> en_cola,
         en_operacion |-> en_operacion,
         completados  |-> completados,
         total        |-> en_cola + en_operacion + completados]

\* GestorVuelos.contar_vuelos_por_estado
contar_vuelos_por_estado(c) ==
    [en_cola      |-> Len(c.cola_aterrizaje) + Len(c.cola_despegue),
     en_operacion |-> Cardinality({i \in DOMAIN c.vuelos_activos :
                                      c.vuelos_activos[i].estado = "ASIGNADO"}),
     completados  |-> Len(c.vuelos_completados),
     total        |-> Len(c.vuelos_activos)]

\* ------------------------------------------------------------ GestorPistas
TienePista(c, id) == \E i \in DOMAIN c.pistas : c.pistas[i].id_pista = id

IndicePista(c, id) == CHOOSE i \in DOMAIN c.pistas : c.pistas[i].id_pista = id

\* GestorPistas.añadir_pista
anadir_pista(c, p) ==
    IF TienePista(c, p.id_pista)
    THEN [c EXCEPT !.pistas[IndicePista(c, p.id_pista)] = p]
    ELSE [c EXCEPT !.pistas = Append(@, p)]

\* the positions of S in increasing order: the order a dict is iterated in
EnOrden(S) ==
    [k \in 1..Cardinality(S) |-> CHOOSE x \in S : Cardinality({y \in S : y < x}) = k - 1]

\* GestorPistas.obtener_pistas_libres: the runways, by id, in dict order
obtener_pistas_libres(c, t) ==
    LET idx == EnOrden({i \in DOMAIN c.pistas : esta_disponible(c.pistas[i], t)})
    IN  [k \in DOMAIN idx |-> c.pistas[idx[k]].id_pista]

\* GestorPistas.asignar_vuelo_a_pista
asignar_vuelo_a_pista(c, id_pista, id_vuelo, t) ==
    LET conPista == [c EXCEPT !.pistas[IndicePista(c, id_pista)] = asignar(@, id_vuelo, t)]
    IN  IF TieneVuelo(c, id_vuelo)
        THEN [conPista EXCEPT !.vuelos_activos[IndiceVuelo(c, id_vuelo)].pista_asignada =
                                  id_pista]
        ELSE conPista

\* the test of actualizar_pistas with < in the place of <=
VenceDespues(p, t) ==
    /\ ~p.libre
    /\ p.tiempo_liberacion # None
    /\ p.tiempo_liberacion < t

\* the test of GestorPistas.actualizar_pistas
VenceAhora(p, t) ==
    /\ ~p.libre
    /\ p.tiempo_liberacion # None
    /\ p.tiempo_liberacion <= t

\* actualizar_pistas that releases every occupied runway, due or not
actualizar_pistas_todas(c, t) ==
    LET idx == EnOrden({i \in DOMAIN c.pistas : ~c.pistas[i].libre})
    IN  [c |-> [c EXCEPT !.pistas =
                   [i \in DOMAIN c.pistas |->
                       IF ~c.pistas[i].libre THEN liberar(c.pistas[i]) ELSE c.pistas[i]]],
         completados |-> [k \in DOMAIN idx |-> c.pistas[idx[k]].vuelo_actual]]

\* GestorPistas.actualizar_pistas: the pool after it, and the list it returns
\* (`if vuelo_id` is the test against None: the id of a flight is not empty)
actualizar_pistas(c, t) ==
    LET idx == EnOrden({i \in DOMAIN c.pistas :
                           VenceAhora(c.pistas[i], t) /\ c.pistas[i].vuelo_actual # None})
    IN  [c |-> [c EXCEPT !.pistas =
                   [i \in DOMAIN c.pistas |->
                       IF VenceAhora(c.pistas[i], t) THEN liberar(c.pistas[i])
                       ELSE c.pistas[i]]],
         completados |-> [k \in DOMAIN idx |-> c.pistas[idx[k]].vuelo_actual]]

\* GestorPistas.contar_operaciones_totales
RECURSIVE SumaOperaciones(_)
SumaOperaciones(ps) ==
    IF ps = <<>> THEN 0
    ELSE ps[Len(ps)].operaciones_totales + SumaOperaciones(SubSeq(ps, 1, Len(ps)-1))

contar_operaciones_totales(c) == SumaOperaciones(c.pistas)

\* --------------------------------------------------- ControladorSimulacion
\* The controller and the objects it owns, as one value.
Controlador ==
    [tiempo_actual      |-> tiempo_actual,
     en_simulacion      |-> en_simulacion,
     vuelos_activos     |-> vuelos_activos,
     cola_aterrizaje    |-> cola_aterrizaje,
     cola_despegue      |-> cola_despegue,
     vuelos_completados |-> vuelos_completados,
     pistas             |-> pistas,
     eventos            |-> eventos]

\* ControladorSimulacion.__init__
ControladorNuevo ==
    [tiempo_actual      |-> 0,
     en_simulacion      |-> FALSE,
     vuelos_activos     |-> <<>>,
     cola_aterrizaje    |-> <<>>,
     cola_despegue      |-> <<>>,
     vuelos_completados |-> <<>>,
     pistas             |-> <<>>,
     eventos            |-> <<>>]

RECURSIVE AnadirPistas(_, _)
AnadirPistas(c, ps) ==
    IF ps = <<>> THEN c ELSE AnadirPistas(anadir_pista(c, Head(ps)), Tail(ps))

RECURSIVE AnadirVuelos(_, _)
AnadirVuelos(c, vs) ==
    IF vs = <<>> THEN c
    ELSE AnadirVuelos(
            registrar_en_cola(anadir_vuelo(c, Head(vs)), c.tiempo_actual,
                              Head(vs).id_vuelo, Head(vs).tipo),
            Tail(vs))

\* ControladorSimulacion.inicializar_sistema
inicializar_sistema(c, vs, ps) ==
    LET conPistas == AnadirPistas(c, ps)
        conCarga  == registrar_carga_inicial(conPistas, c.tiempo_actual, Len(vs), Len(ps))
        conVuelos == AnadirVuelos(conCarga, vs)
    IN  [conVuelos EXCEPT !.en_simulacion = TRUE]

\* avanzar_minuto, step 1: the log line of a completed flight names the first
\* runway of the pool that is free
PrimeraPistaLibre(c) ==
    LET libres == {i \in DOMAIN c.pistas : c.pistas[i].libre}
    IN  IF libres = {} THEN None
        ELSE c.pistas[CHOOSE i \in libres : \A j \in libres : i <= j].id_pista

RECURSIVE CompletarTodos(_, _)
CompletarTodos(c, ids) ==
    IF ids = <<>> THEN c
    ELSE LET hecho == completar_vuelo(c, Head(ids), c.tiempo_actual)
             pista == PrimeraPistaLibre(hecho)
             anotado == IF pista = None THEN hecho
                        ELSE registrar_completado(hecho, c.tiempo_actual, Head(ids), pista)
         IN  CompletarTodos(anotado, Tail(ids))

\* avanzar_minuto, step 1 (lines 141-153)
LiberarPistas(c) ==
    LET r == actualizar_pistas(c, c.tiempo_actual)
    IN  CompletarTodos(r.c, r.completados)

\* the test of _actualizar_emergencias
DebeEscalar(v) ==
    /\ v.tipo = "ATERRIZAJE"
    /\ tiene_combustible_critico(v)
    /\ v.prioridad < PrioridadEmergencia

RECURSIVE EscalarDesde(_, _)
EscalarDesde(c, i) ==
    IF i > Len(c.vuelos_activos) THEN c
    ELSE IF DebeEscalar(c.vuelos_activos[i])
         THEN EscalarDesde(
                registrar_emergencia(
                    [c EXCEPT !.vuelos_activos[i].prioridad = PrioridadEmergencia],
                    c.tiempo_actual, c.vuelos_activos[i].id_vuelo, PrioridadEmergencia),
                i + 1)
         ELSE EscalarDesde(c, i + 1)

\* no flight is escalated
sin_emergencias(c) == c

\* ControladorSimulacion._actualizar_emergencias
actualizar_emergencias(c) == EscalarDesde(c, 1)

\* _asignar_vuelos_a_pistas, the body of the loop after the selection (lines 111-119)
AsignarUno(c, id_pista, id_vuelo) ==
    LET t        == c.tiempo_actual
        enPista  == asignar_vuelo_a_pista(c, id_pista, id_vuelo, t)
        asignado == asignar_vuelo(enPista, id_vuelo, t)
    IN  registrar_asignacion(asignado, t, id_vuelo, id_pista, VueloDe(c, id_vuelo).tipo)

\* the loop that leaves after its first assignment
asignar_solo_el_primero(c, libres) ==
    IF libres = <<>> THEN c
    ELSE LET vuelo == seleccionar_vuelo_para_pista(c, c.tiempo_actual)
         IN  IF vuelo = None THEN c ELSE AsignarUno(c, Head(libres), vuelo)

RECURSIVE AsignarBucle(_, _)
AsignarBucle(c, libres) ==
    IF libres = <<>> THEN c
    ELSE LET vuelo == seleccionar_vuelo_para_pista(c, c.tiempo_actual)
         IN  IF vuelo = None THEN c
             ELSE AsignarBucle(AsignarUno(c, Head(libres), vuelo), Tail(libres))

\* ControladorSimulacion._asignar_vuelos_a_pistas
asignar_vuelos_a_pistas(c) ==
    AsignarBucle(c, obtener_pistas_libres(c, c.tiempo_actual))

\* the decay without the test combustible > 0
consumir_sin_suelo(c) ==
    [c EXCEPT !.vuelos_activos =
        [i \in DOMAIN @ |->
            IF /\ @[i].tipo = "ATERRIZAJE"
               /\ @[i].estado = "EN_COLA"
               /\ @[i].combustible # None
            THEN [@[i] EXCEPT !.combustible = @ - 1]
            ELSE @[i]]]

\* the decay without the test of estado
consumir_en_todos(c) ==
    [c EXCEPT !.vuelos_activos =
        [i \in DOMAIN @ |->
            IF /\ @[i].tipo = "ATERRIZAJE"
               /\ @[i].combustible # None
               /\ @[i].combustible > 0
            THEN [@[i] EXCEPT !.combustible = @ - 1]
            ELSE @[i]]]

\* ControladorSimulacion._consumir_combustible_en_cola
consumir_combustible_en_cola(c) ==
    [c EXCEPT !.vuelos_activos =
        [i \in DOMAIN @ |->
            IF /\ @[i].tipo = "ATERRIZAJE"
               /\ @[i].estado = "EN_COLA"
               /\ @[i].combustible # None
               /\ @[i].combustible > 0
            THEN [@[i] EXCEPT !.combustible = @ - 1]
            ELSE @[i]]]

\* the clock left as it is
RelojParado(c) == c

\* avanzar_minuto, step 5
AvanzarReloj(c) == [c EXCEPT !.tiempo_actual = @ + 1]

\* avanzar_minuto without the test of en_simulacion
avanzar_minuto_sin_guardia(c) ==
    [c   |-> AvanzarReloj(
                consumir_combustible_en_cola(
                  asignar_vuelos_a_pistas(
                    actualizar_emergencias(
                      LiberarPistas(c))))),
     ret |-> TRUE]

\* ControladorSimulacion.avanzar_minuto: the controller after it, and what it returns
avanzar_minuto(c) ==
    IF ~c.en_simulacion THEN [c |-> c, ret |-> FALSE]
    ELSE [c   |-> AvanzarReloj(
                    consumir_combustible_en_cola(
                      asignar_vuelos_a_pistas(
                        actualizar_emergencias(
                          LiberarPistas(c))))),
          ret |-> TRUE]

\* a single call of avanzar_minuto whatever n is
avanzar_una_vez(c, n) ==
    LET r == avanzar_minuto(c)
    IN  [c |-> r.c, hechos |-> IF r.ret THEN 1 ELSE 0]

\* ControladorSimulacion.avanzar_n_minutos: the controller after it, and the
\* number of calls of avanzar_minuto that returned True
RECURSIVE avanzar_n_minutos(_, _)
avanzar_n_minutos(c, n) ==
    IF n <= 0 THEN [c |-> c, hechos |-> 0]
    ELSE LET r == avanzar_minuto(c)
         IN  IF ~r.ret THEN [c |-> c, hechos |-> 0]
             ELSE LET resto == avanzar_n_minutos(r.c, n - 1)
                  IN  [c |-> resto.c, hechos |-> resto.hechos + 1]

\* ControladorSimulacion.finalizar_simulacion, after detener_reloj_real (lines 217-221)
AnotarFin(c) ==
    registrar_fin_simulacion(c, c.tiempo_actual, Len(c.vuelos_completados))

\* ------------------------------------------------------------------ inputs
Prioridades == 0..2
Combustibles == {1, 6}
TiemposUso == 1..2

\* the flights Vuelo(...) can build for one id, all waiting, with the expected
\* times `tiempos`
VuelosCon(id, tiempos) ==
    {NuevoVuelo(id, "ATERRIZAJE", eta, None, p, f, "EN_COLA") :
        eta \in tiempos, p \in Prioridades, f \in Combustibles}
    \cup
    {NuevoVuelo(id, "DESPEGUE", None, etd, p, None, "EN_COLA") :
        etd \in tiempos, p \in Prioridades}

\* lists of 1..n flights with different ids among `ids`, as vuelos.csv gives them
ListasVuelos(ids, n, tiempos) ==
    UNION {{vs \in [1..k -> UNION {VuelosCon(id, tiempos) : id \in ids}] :
              \A i, j \in 1..k : i # j => vs[i].id_vuelo # vs[j].id_vuelo} :
           k \in 1..n}

\* the runways Pista(...) can build for one id; the hold time of a runway that is
\* out of service is never read, and is 1
PistasPosibles(id, habilitadas) ==
    {NuevaPista(id, u, 1) : u \in TiemposUso} \cup
    {NuevaPista(id, 1, h) : h \in habilitadas \ {1}}

\* lists of n runways R1, R2, ... as pistas.csv gives them
ListasPistas(n, habilitadas) ==
    {ps \in [1..n -> UNION {PistasPosibles(id, habilitadas) : id \in 1..n}] :
        \A i \in 1..n : ps[i].id_pista = i}

\* ------------------------------------------------------------ state, Init
Pone(c) ==
    /\ tiempo_actual' = c.tiempo_actual
    /\ en_simulacion' = c.en_simulacion
    /\ vuelos_activos' = c.vuelos_activos
    /\ cola_aterrizaje' = c.cola_aterrizaje
    /\ cola_despegue' = c.cola_despegue
    /\ vuelos_completados' = c.vuelos_completados
    /\ pistas' = c.pistas
    /\ eventos' = c.eventos

Es(c) ==
    /\ tiempo_actual = c.tiempo_actual
    /\ en_simulacion = c.en_simulacion
    /\ vuelos_activos = c.vuelos_activos
    /\ cola_aterrizaje = c.cola_aterrizaje
    /\ cola_despegue = c.cola_despegue
    /\ vuelos_completados = c.vuelos_completados
    /\ pistas = c.pistas
    /\ eventos = c.eventos

Llamada(op, arg, ok, valor) == [op |-> op, arg |-> arg, ok |-> ok, valor |-> valor]

Contextos == {"menu", "hilo"}

Fuera == [pc |-> "fuera", libres |-> <<>>, vuelo |-> None, leido |-> None]

SinHilo == [estado |-> "ninguno", pc |-> "-"]

HistNueva ==
    [ticks |-> 0, parada |-> FALSE, finalizada |-> FALSE,
     tras_parada |-> FALSE, tras_fin |-> FALSE, fines |-> 0,
     anadidos |-> 0, vivos |-> 0]

\* everything but the controller's own fields, before any call
SinLlamadas ==
    /\ stop_event = FALSE
    /\ hilo = SinHilo
    /\ pcs = [x \in Contextos |-> Fuera]
    /\ ult = Llamada("-", None, TRUE, None)
    /\ hist = HistNueva

\* the state after ControladorSimulacion(gestor_logs)
Init == Es(ControladorNuevo) /\ SinLlamadas

\* ------------------------------------------- calls of the driving context
MenuLibre == pcs["menu"] = Fuera

\* MenuPrincipal._requiere_simulacion: the menu has a controller once data is loaded
Cargado == pistas # <<>>

\* n successful calls of avanzar_minuto, as the history sees them
TrasTick(h, n) ==
    [h EXCEPT !.ticks = @ + n,
              !.tras_parada = @ \/ (n > 0 /\ h.parada),
              !.tras_fin = @ \/ (n > 0 /\ h.finalizada)]

\* MenuPrincipal.opcion_cargar_datos: inicializar_sistema on the new controller
Inicializar(listasVuelos, listasPistas) ==
    \E vs \in listasVuelos, ps \in listasPistas :
        /\ MenuLibre
        /\ pistas = <<>>
        /\ Pone(inicializar_sistema(Controlador, vs, ps))
        /\ ult' = Llamada("-", None, TRUE, None)
        /\ hist' = [hist EXCEPT !.parada = FALSE, !.finalizada = FALSE,
                                !.anadidos = @ + Len(vs)]
        /\ UNCHANGED <<stop_event, hilo, pcs>>

\* MenuPrincipal.opcion_añadir_vuelo: añadir_vuelo and its log line
AnadirVueloManual(tiempos) ==
    \E id \in IdsVuelo :
        /\ MenuLibre
        /\ Cargado
        /\ ~TieneVuelo(Controlador, id)
        /\ \E v \in VuelosCon(id, tiempos) :
              Pone(registrar_en_cola(anadir_vuelo(Controlador, v),
                                     tiempo_actual, v.id_vuelo, v.tipo))
        /\ hist' = [hist EXCEPT !.anadidos = @ + 1]
        /\ UNCHANGED <<stop_event, hilo, pcs, ult>>

\* one call of avanzar_minuto by the driving context, run to its end
AvanzarMinuto ==
    LET r == avanzar_minuto(Controlador)
    IN  /\ MenuLibre
        /\ r.ret => tiempo_actual < MaxTiempo
        /\ Pone(r.c)
        /\ ult' = Llamada("avanzar_minuto", None, r.ret, None)
        /\ hist' = TrasTick(hist, IF r.ret THEN 1 ELSE 0)
        /\ UNCHANGED <<stop_event, hilo, pcs>>

\* one call of avanzar_n_minutos by the driving context, run to its end
AvanzarNMinutos ==
    \E n \in -1..MaxN :
        LET r == avanzar_n_minutos(Controlador, n)
        IN  /\ MenuLibre
            /\ tiempo_actual + r.hechos <= MaxTiempo
            /\ Pone(r.c)
            /\ ult' = Llamada("avanzar_n_minutos", n, TRUE, r.hechos)
            /\ hist' = TrasTick(hist, r.hechos)
            /\ UNCHANGED <<stop_event, hilo, pcs>>

\* finalizar_simulacion with no background thread alive
FinalizarSimulacion ==
    /\ MenuLibre
    /\ Cargado
    /\ hilo.estado # "vivo"
    /\ hist.fines < MaxFin
    /\ stop_event' = TRUE
    /\ Pone(AnotarFin([Controlador EXCEPT !.en_simulacion = FALSE]))
    /\ hist' = [hist EXCEPT !.parada = TRUE, !.finalizada = TRUE, !.fines = @ + 1]
    /\ UNCHANGED <<hilo, pcs, ult>>

\* The sequential program: two flights, two runways, every call run to its end.
Next ==
    \/ Inicializar(ListasVuelos(IdsVuelo, MaxVuelos, {0}), ListasPistas(MaxPistas, {0, 1}))
    \/ AnadirVueloManual({0})
    \/ AvanzarMinuto
    \/ FinalizarSimulacion

Spec == Init /\ [][Next]_vars

\* ----------------------------------------------- the selection on its own
\* what vuelos.csv can hold for the selection: up to MaxCola flights, of both
\* kinds, of every priority, with and without critical fuel, due at 0 or at 2
ColasPosibles == {<<>>} \cup ListasVuelos(1..MaxCola, MaxCola, {0, 2})

\* the state after inicializar_sistema with one runway
InitSel ==
    \E vs \in ColasPosibles :
        /\ Es(inicializar_sistema(ControladorNuevo, vs, <<NuevaPista(1, 1, 1)>>))
        /\ stop_event = FALSE
        /\ hilo = SinHilo
        /\ pcs = [x \in Contextos |-> Fuera]
        /\ ult = Llamada("-", None, TRUE, None)
        /\ hist = [HistNueva EXCEPT !.anadidos = Len(vs)]

\* one call of GestorVuelos.seleccionar_vuelo_para_pista(t)
SeleccionarVuelo ==
    \E t \in 0..MaxTiempo :
        /\ MenuLibre
        /\ ult' = Llamada("seleccionar_vuelo_para_pista", t, TRUE,
                          seleccionar_vuelo_para_pista(Controlador, t))
        /\ UNCHANGED <<tiempo_actual, en_simulacion, stop_event, vuelos_activos,
                       cola_aterrizaje, cola_despegue, vuelos_completados, pistas,
                       eventos, hilo, pcs, hist>>

NextSel == SeleccionarVuelo

SpecSel == InitSel /\ [][NextSel]_vars

\* ------------------------------------------- the clock in a second thread
\* The menu thread and the thread of _bucle_reloj_real share the controller and
\* take no lock.  A call of avanzar_minuto by context x goes through the
\* positions fuera -> elige <-> asigna -> escribe -> fuera of pcs[x]; the
\* statements between two positions run as one step.

\* what vuelos.csv and pistas.csv hold here: one or two normal take-offs due at
\* 0, and one runway in service
VuelosHilo ==
    {vs \in ListasVuelos(IdsVuelo, MaxVuelos, {0}) :
        \A i \in DOMAIN vs : vs[i].tipo = "DESPEGUE" /\ vs[i].prioridad = 0}

PistasHilo == ListasPistas(1, {1})

\* context x is about to call avanzar_minuto
PuedeEmpezar(x) ==
    /\ pcs[x] = Fuera
    /\ x = "hilo" => (hilo.estado = "vivo" /\ hilo.pc = "tick")

\* avanzar_minuto returns `ok` to context x: the menu reads the value, the
\* thread sleeps and goes back to the test of its loop (lines 180-182)
Devuelve(x, ok) ==
    /\ ult' = IF x = "menu" THEN Llamada("avanzar_minuto", None, ok, None) ELSE ult
    /\ hilo' = IF x = "hilo" THEN [hilo EXCEPT !.pc = "prueba"] ELSE hilo

\* avanzar_minuto, lines 137-138: the simulation is stopped
TickRechazado(x) ==
    /\ PuedeEmpezar(x)
    /\ ~en_simulacion
    /\ Devuelve(x, FALSE)
    /\ UNCHANGED <<tiempo_actual, en_simulacion, stop_event, vuelos_activos,
                   cola_aterrizaje, cola_despegue, vuelos_completados, pistas,
                   eventos, pcs, hist>>

\* avanzar_minuto, lines 137-156 and line 104: the test, the release of the
\* runways, the escalation, and the list of free runways
TickEmpieza(x) ==
    /\ PuedeEmpezar(x)
    /\ en_simulacion
    /\ hist.ticks < MaxTiempo
    /\ LET c == actualizar_emergencias(LiberarPistas(Controlador))
       IN  /\ Pone(c)
           /\ pcs' = [pcs EXCEPT ![x] =
                        [Fuera EXCEPT !.pc = "elige",
                                      !.libres = obtener_pistas_libres(c, c.tiempo_actual)]]
    /\ hist' = [hist EXCEPT !.tras_parada = @ \/ hist.parada,
                            !.tras_fin = @ \/ hist.finalizada]
    /\ UNCHANGED <<stop_event, hilo, ult>>

\* _asignar_vuelos_a_pistas, lines 106-109: the next free runway and the flight
\* selected for it; when the loop ends, lines 162 and 165 as far as the read of
\* tiempo_actual
TickElige(x) ==
    /\ pcs[x].pc = "elige"
    /\ LET vuelo == IF pcs[x].libres = <<>> THEN None
                    ELSE seleccionar_vuelo_para_pista(Controlador, tiempo_actual)
       IN  IF vuelo # None
           THEN /\ pcs' = [pcs EXCEPT ![x].pc = "asigna", ![x].vuelo = vuelo]
                /\ UNCHANGED <<tiempo_actual, en_simulacion, vuelos_activos,
                               cola_aterrizaje, cola_despegue, vuelos_completados,
                               pistas, eventos>>
           ELSE /\ Pone(consumir_combustible_en_cola(Controlador))
                /\ pcs' = [pcs EXCEPT ![x] =
                             [Fuera EXCEPT !.pc = "escribe", !.leido = tiempo_actual]]
    /\ UNCHANGED <<stop_event, hilo, ult, hist>>

\* _asignar_vuelos_a_pistas, lines 111-119
TickAsigna(x) ==
    /\ pcs[x].pc = "asigna"
    /\ Pone(AsignarUno(Controlador, Head(pcs[x].libres), pcs[x].vuelo))
    /\ pcs' = [pcs EXCEPT ![x].pc = "elige", ![x].libres = Tail(@), ![x].vuelo = None]
    /\ UNCHANGED <<stop_event, hilo, ult, hist>>

\* avanzar_minuto, lines 165-166: the store of tiempo_actual, and the return
TickEscribe(x) ==
    /\ pcs[x].pc = "escribe"
    /\ tiempo_actual' = pcs[x].leido + 1
    /\ pcs' = [pcs EXCEPT ![x] = Fuera]
    /\ Devuelve(x, TRUE)
    /\ hist' = [hist EXCEPT !.ticks = @ + 1]
    /\ UNCHANGED <<en_simulacion, stop_event, vuelos_activos, cola_aterrizaje,
                   cola_despegue, vuelos_completados, pistas, eventos>>

\* no thread is ever taken to be alive
NuncaCorre == FALSE

\* iniciar_reloj_real, line 188: a thread exists and is alive
YaCorre == hilo.estado = "vivo"

\* ControladorSimulacion.iniciar_reloj_real: it returns at once when a thread is
\* alive, and otherwise clears the event and starts a thread
IniciarRelojReal ==
    /\ MenuLibre
    /\ Cargado
    /\ IF YaCorre
       THEN /\ ult' = Llamada("iniciar_reloj_real", None, FALSE, None)
            /\ UNCHANGED <<stop_event, hilo, hist>>
       ELSE /\ stop_event' = FALSE
            /\ hilo' = [estado |-> "vivo", pc |-> "inicio"]
            /\ hist' = [hist EXCEPT !.parada = FALSE, !.tras_parada = FALSE,
                                    !.vivos = @ + 1]
            /\ ult' = Llamada("iniciar_reloj_real", None, TRUE, None)
    /\ UNCHANGED <<tiempo_actual, en_simulacion, vuelos_activos, cola_aterrizaje,
                   cola_despegue, vuelos_completados, pistas, eventos, pcs>>

\* _bucle_reloj_real, line 179
HiloInicio ==
    /\ hilo.estado = "vivo"
    /\ hilo.pc = "inicio"
    /\ en_simulacion' = TRUE
    /\ hilo' = [hilo EXCEPT !.pc = "prueba"]
    /\ UNCHANGED <<tiempo_actual, stop_event, vuelos_activos, cola_aterrizaje,
                   cola_despegue, vuelos_completados, pistas, eventos, pcs, ult, hist>>

\* _bucle_reloj_real, line 180: the test of the loop
HiloPrueba ==
    /\ hilo.estado = "vivo"
    /\ hilo.pc = "prueba"
    /\ IF ~stop_event /\ en_simulacion
       THEN /\ hilo' = [hilo EXCEPT !.pc = "tick"]
            /\ hist' = hist
       ELSE /\ hilo' = [estado |-> "muerto", pc |-> "-"]
            /\ hist' = [hist EXCEPT !.vivos = @ - 1]
    /\ UNCHANGED <<tiempo_actual, en_simulacion, stop_event, vuelos_activos,
                   cola_aterrizaje, cola_despegue, vuelos_completados, pistas,
                   eventos, pcs, ult>>

\* detener_reloj_real, line 203, called by the menu (fin = FALSE) or by
\* finalizar_simulacion (fin = TRUE)
PedirParada(fin) ==
    /\ MenuLibre
    /\ Cargado
    /\ fin => hist.fines < MaxFin
    /\ stop_event' = TRUE
    /\ pcs' = [pcs EXCEPT !["menu"].pc = IF fin THEN "finalizar" ELSE "detener"]
    /\ UNCHANGED <<tiempo_actual, en_simulacion, vuelos_activos, cola_aterrizaje,
                   cola_despegue, vuelos_completados, pistas, eventos, hilo, ult, hist>>

\* detener_reloj_real, lines 204-206; join returns when the thread has ended or
\* after one second
ApagarSimulacion ==
    /\ pcs["menu"].pc \in {"detener", "finalizar"}
    /\ en_simulacion' = FALSE
    /\ pcs' = [pcs EXCEPT !["menu"].pc = IF @ = "finalizar" THEN "anota" ELSE "fuera"]
    /\ hist' = [hist EXCEPT !.parada = TRUE]
    /\ UNCHANGED <<tiempo_actual, stop_event, vuelos_activos, cola_aterrizaje,
                   cola_despegue, vuelos_completados, pistas, eventos, hilo, ult>>

\* finalizar_simulacion, lines 217-221
AnotarFinal ==
    /\ pcs["menu"].pc = "anota"
    /\ Pone(AnotarFin(Controlador))
    /\ pcs' = [pcs EXCEPT !["menu"].pc = "fuera"]
    /\ hist' = [hist EXCEPT !.finalizada = TRUE, !.fines = @ + 1]
    /\ UNCHANGED <<stop_event, hilo, ult>>

NextHilo ==
    \/ Inicializar(VuelosHilo, PistasHilo)
    \/ IniciarRelojReal
    \/ HiloInicio
    \/ HiloPrueba
    \/ PedirParada(FALSE)
    \/ PedirParada(TRUE)
    \/ ApagarSimulacion
    \/ AnotarFinal
    \/ \E x \in Contextos : TickRechazado(x)
    \/ \E x \in Contextos : TickEmpieza(x)
    \/ \E x \in Contextos : TickElige(x)
    \/ \E x \in Contextos : TickAsigna(x)
    \/ \E x \in Contextos : TickEscribe(x)

SpecHilo == Init /\ [][NextHilo]_vars

\* ------------------------------------- vuelos.csv with a column of states
\* Vuelo.from_dict takes estado from the row, and añadir_vuelo puts the flight
\* in the queue of its kind whatever its estado is.
Estados == {"EN_COLA", "ASIGNADO", "COMPLETADO"}

VuelosCargados(id) ==
    {[v EXCEPT !.estado = e] : v \in VuelosCon(id, {0}), e \in Estados}

ListasCargadas ==
    UNION {{vs \in [1..k -> UNION {VuelosCargados(id) : id \in IdsVuelo}] :
              \A i, j \in 1..k : i # j => vs[i].id_vuelo # vs[j].id_vuelo} :
           k \in 1..MaxVuelos}

\* the sequential program with one runway in service and such a file
NextCarga ==
    \/ Inicializar(ListasCargadas, ListasPistas(1, {1}))
    \/ AvanzarMinuto

SpecCarga == Init /\ [][NextCarga]_vars

\* ------------------------------------------------ GestorVuelos on its own
\* Calls of añadir_vuelo, asignar_vuelo and completar_vuelo in any order, with
\* identifiers that are added once, starting from the empty manager.

\* the flights added here: normal, due at 0, a landing with fuel 6 or a take-off
VuelosGestor(id) ==
    {v \in VuelosCon(id, {0}) : v.prioridad = 0 /\ v.combustible \in {None, 6}}

\* the values of tiempo_actual the calls are made with
TiemposGestor == 0..MaxN

GestorAnadir ==
    \E id \in IdsVuelo :
        /\ ~TieneVuelo(Controlador, id)
        /\ \E v \in VuelosGestor(id) : Pone(anadir_vuelo(Controlador, v))
        /\ ult' = Llamada("anadir_vuelo", id, TRUE, None)
        /\ hist' = [hist EXCEPT !.anadidos = @ + 1]
        /\ UNCHANGED <<stop_event, hilo, pcs>>

GestorAsignar ==
    \E id \in IdsVuelo, t \in TiemposGestor :
        /\ Pone(asignar_vuelo(Controlador, id, t))
        /\ ult' = Llamada("asignar_vuelo", id, TRUE, t)
        /\ UNCHANGED <<stop_event, hilo, pcs, hist>>

GestorCompletar ==
    \E id \in IdsVuelo, t \in TiemposGestor :
        /\ Pone(completar_vuelo(Controlador, id, t))
        /\ ult' = Llamada("completar_vuelo", id, TRUE, t)
        /\ UNCHANGED <<stop_event, hilo, pcs, hist>>

NextGestor ==
    \/ GestorAnadir
    \/ GestorAsignar
    \/ GestorCompletar

SpecGestor == Init /\ [][NextGestor]_vars

\* ------------------------------- inicializar_sistema on a used controller
\* inicializar_sistema is a public method: it can be called on a controller
\* that was never loaded and on one that finalizar_simulacion has stopped.  It
\* adds to what the controller holds (lines 61-78).

\* the lists of flights supplied here: normal flights due at 0
VuelosReinicio ==
    {vs \in ListasVuelos(IdsVuelo, MaxVuelos, {0}) :
        \A i \in DOMAIN vs : vs[i].prioridad = 0 /\ vs[i].combustible \in {None, 6}}

\* one call of inicializar_sistema on the controller as it is, not running
InicializarSistema ==
    \E vs \in VuelosReinicio, ps \in ListasPistas(1, {1}) :
        /\ MenuLibre
        /\ ~en_simulacion
        /\ hilo.estado # "vivo"
        /\ Pone(inicializar_sistema(Controlador, vs, ps))
        /\ ult' = Llamada("inicializar_sistema", vs, TRUE, None)
        /\ hist' = [hist EXCEPT !.parada = FALSE, !.finalizada = FALSE,
                                !.anadidos = @ + Len(vs)]
        /\ UNCHANGED <<stop_event, hilo, pcs>>

NextReinicio ==
    \/ InicializarSistema
    \/ AvanzarMinuto
    \/ FinalizarSimulacion

SpecReinicio == Init /\ [][NextReinicio]_vars

\* ------------------------------------------- several minutes in one call
\* The sequential program with avanzar_n_minutos among its calls.
NextN ==
    \/ Inicializar(VuelosReinicio, ListasPistas(MaxPistas, {1}))
    \/ AvanzarMinuto
    \/ AvanzarNMinutos
    \/ FinalizarSimulacion

SpecN == Init /\ [][NextN]_vars

\* ------------------------------------------------- GestorCSV, the loader
\* A row of a CSV file is what csv.DictReader yields: a text per column, "" for
\* an empty cell and Nulo for a cell the line does not have.
Nulo == "(None)"

\* int(s) of Python on the texts used here: it raises on any other text
Enteros == {"0", "1", "6"}

int(s) == CASE s = "0" -> 0 [] s = "1" -> 1 [] s = "6" -> 6

\* `if data.get(k)`: an empty or missing cell is false
Falso(s) == s \in {"", Nulo}

\* Vuelo.from_dict: ok is FALSE when an int(...) raises
Vuelo_from_dict(data) ==
    LET sirve(s) == Falso(s) \/ s \in Enteros
        opcional(s) == IF Falso(s) THEN None ELSE int(s)
    IN  IF sirve(data.eta) /\ sirve(data.etd) /\ sirve(data.combustible)
           /\ data.prioridad \in Enteros
        THEN [ok |-> TRUE,
              valor |-> NuevoVuelo(data.id_vuelo, data.tipo, opcional(data.eta),
                                   opcional(data.etd), int(data.prioridad),
                                   opcional(data.combustible), data.estado)]
        ELSE [ok |-> FALSE, valor |-> None]

\* Pista.from_dict
Pista_from_dict(data) ==
    IF data.tiempo_uso \in Enteros /\ data.habilitada \in Enteros
    THEN [ok |-> TRUE,
          valor |-> NuevaPista(data.id_pista, int(data.tiempo_uso), int(data.habilitada))]
    ELSE [ok |-> FALSE, valor |-> None]

\* GestorCSV.leer_vuelos: the try statement encloses the loop over the rows, so
\* the first row that raises ends the reading
RECURSIVE leer_vuelos(_)
leer_vuelos(filas) ==
    IF filas = <<>> THEN <<>>
    ELSE LET r == Vuelo_from_dict(Head(filas))
         IN  IF r.ok THEN <<r.valor>> \o leer_vuelos(Tail(filas)) ELSE <<>>

\* GestorCSV.leer_pistas
RECURSIVE leer_pistas(_)
leer_pistas(filas) ==
    IF filas = <<>> THEN <<>>
    ELSE LET r == Pista_from_dict(Head(filas))
         IN  IF r.ok THEN <<r.valor>> \o leer_pistas(Tail(filas)) ELSE <<>>

\* the rows vuelos.csv can hold for one id: a landing, a take-off, and rows
\* whose prioridad is not a number, is missing, or whose eta is not a number
FilasVuelo(id) ==
    LET aterrizaje == [id_vuelo |-> id, tipo |-> "ATERRIZAJE", eta |-> "0", etd |-> "",
                       prioridad |-> "0", combustible |-> "6", estado |-> "EN_COLA"]
        despegue   == [id_vuelo |-> id, tipo |-> "DESPEGUE", eta |-> "", etd |-> "0",
                       prioridad |-> "1", combustible |-> "", estado |-> "EN_COLA"]
    IN  {aterrizaje, despegue,
         [aterrizaje EXCEPT !.prioridad = "alta"],
         [despegue EXCEPT !.prioridad = Nulo],
         [aterrizaje EXCEPT !.eta = "pronto"]}

\* the rows pistas.csv can hold for one id
FilasPista(id) ==
    {[id_pista |-> id, tiempo_uso |-> "1", habilitada |-> "1"],
     [id_pista |-> id, tiempo_uso |-> "", habilitada |-> "1"]}

\* vuelos.csv: files of 1..MaxFilas rows, the k-th row with id k
ArchivosVuelos ==
    UNION {{f \in [1..k -> UNION {FilasVuelo(id) : id \in 1..k}] :
              \A i \in 1..k : f[i] \in FilasVuelo(i)} : k \in 1..MaxFilas}

\* pistas.csv: files of 1..MaxPistas rows, the k-th row with id k
ArchivosPistas ==
    UNION {{f \in [1..k -> UNION {FilasPista(id) : id \in 1..k}] :
              \A i \in 1..k : f[i] \in FilasPista(i)} : k \in 1..MaxPistas}

\* MenuPrincipal.opcion_cargar_datos, as long as no data is loaded: both files
\* are read, and a new controller is built and initialised when neither list
\* is empty
OpcionCargarDatos ==
    \E fv \in ArchivosVuelos, fp \in ArchivosPistas :
        LET vs == leer_vuelos(fv)
            ps == leer_pistas(fp)
            leido == [vuelos |-> vs, pistas |-> ps]
            archivos == [vuelos |-> fv, pistas |-> fp]
        IN  /\ MenuLibre
            /\ pistas = <<>>
            /\ IF vs = <<>> \/ ps = <<>>
               THEN /\ ult' = Llamada("opcion_cargar_datos", archivos, FALSE, leido)
                    /\ UNCHANGED <<tiempo_actual, en_simulacion, vuelos_activos,
                                   cola_aterrizaje, cola_despegue, vuelos_completados,
                                   pistas, eventos, hist>>
               ELSE /\ ult' = Llamada("opcion_cargar_datos", archivos, TRUE, leido)
                    /\ Pone(inicializar_sistema(ControladorNuevo, vs, ps))
                    /\ hist' = [HistNueva EXCEPT !.anadidos = Len(vs)]
            /\ UNCHANGED <<stop_event, hilo, pcs>>

NextCsv ==
    \/ OpcionCargarDatos
    \/ AvanzarMinuto

SpecCsv == Init /\ [][NextCsv]_vars

\* ------------------------------------------------------- GestorInformes
\* Vuelo.es_emergencia
es_emergencia(v) == v.prioridad = PrioridadEmergencia

RECURSIVE SumaSec(_)
SumaSec(s) == IF s = <<>> THEN 0 ELSE Head(s) + SumaSec(Tail(s))

\* every completed flight with both times known gives a sample, 0 when it
\* started before its expected time
RECURSIVE tiempos_espera_con_ceros(_)
tiempos_espera_con_ceros(completados) ==
    IF completados = <<>> THEN <<>>
    ELSE LET v == Head(completados)
             previsto == get_tiempo_previsto(v)
             resto == tiempos_espera_con_ceros(Tail(completados))
         IN  IF previsto # None /\ v.tiempo_inicio # None
             THEN <<Max0(v.tiempo_inicio - previsto)>> \o resto
             ELSE resto

\* generar_informe, lines 95-101: the waits of the completed flights, kept only
\* when they are not negative
RECURSIVE tiempos_espera(_)
tiempos_espera(completados) ==
    IF completados = <<>> THEN <<>>
    ELSE LET v == Head(completados)
             previsto == get_tiempo_previsto(v)
             resto == tiempos_espera(Tail(completados))
         IN  IF previsto # None /\ v.tiempo_inicio # None
                /\ v.tiempo_inicio - previsto >= 0
             THEN <<v.tiempo_inicio - previsto>> \o resto
             ELSE resto

\* f"{suma / n:.1f}" in tenths, 0.0 when there is no sample; with fewer than
\* four samples the quotient is never half-way between two tenths
Decimas(suma, n) == IF n = 0 THEN 0 ELSE (20 * suma + n) \div (2 * n)

\* GestorInformes.generar_informe: what the lines of informe.log say
generar_informe(t, vuelos, ps) ==
    LET completados == SelectSeq(vuelos, LAMBDA v : v.estado = "COMPLETADO")
        esperas == tiempos_espera(completados)
        conTiempos == SelectSeq(completados,
                         LAMBDA v : v.tiempo_inicio # None /\ v.tiempo_fin # None)
    IN  [tiempo_simulado  |-> t,
         vuelos_atendidos |-> Len(completados),
         espera_suma      |-> SumaSec(esperas),
         espera_muestras  |-> Len(esperas),
         espera_media     |-> Decimas(SumaSec(esperas), Len(esperas)),
         uso_pistas       |-> [i \in DOMAIN ps |->
                                 [id_pista |-> ps[i].id_pista,
                                  operaciones |-> ps[i].operaciones_totales]],
         emergencias      |-> Len(SelectSeq(completados, es_emergencia)),
         detalle          |-> [i \in DOMAIN conTiempos |->
                                 [id_vuelo |-> conTiempos[i].id_vuelo,
                                  tipo |-> conTiempos[i].tipo,
                                  emergencia |-> es_emergencia(conTiempos[i]),
                                  t_inicio |-> conTiempos[i].tiempo_inicio,
                                  t_fin |-> conTiempos[i].tiempo_fin]]]

\* MenuPrincipal.opcion_generar_informe
OpcionGenerarInforme ==
    /\ MenuLibre
    /\ Cargado
    /\ ult' = Llamada("generar_informe", None, TRUE,
                      generar_informe(tiempo_actual, vuelos_activos, pistas))
    /\ UNCHANGED <<tiempo_actual, en_simulacion, stop_event, vuelos_activos,
                   cola_aterrizaje, cola_despegue, vuelos_completados, pistas,
                   eventos, hilo, pcs, hist>>

\* the sequential program with flights expected at 0 or at 2, one runway in
\* service, and the report
NextInforme ==
    \/ Inicializar(ListasVuelos(IdsVuelo, MaxVuelos, {0, 2}), ListasPistas(1, {1}))
    \/ AvanzarMinuto
    \/ OpcionGenerarInforme

SpecInforme == Init /\ [][NextInforme]_vars

\* ------------------------------------------------ GestorPistas on its own
\* Calls of añadir_pista, asignar_vuelo_a_pista and actualizar_pistas in any
\* order and with any time, starting from the empty pool; the flights are not
\* in a GestorVuelos.
PistasAnadir ==
    \E id \in IdsPista :
        /\ ~TienePista(Controlador, id)
        /\ \E p \in PistasPosibles(id, {0, 1}) : Pone(anadir_pista(Controlador, p))
        /\ ult' = Llamada("anadir_pista", id, TRUE, None)
        /\ UNCHANGED <<stop_event, hilo, pcs, hist>>

PistasAsignar ==
    \E id_pista \in IdsPista, id_vuelo \in IdsVuelo, t \in TiemposGestor :
        /\ TienePista(Controlador, id_pista)
        /\ contar_operaciones_totales(Controlador) < MaxTiempo
        /\ Pone(asignar_vuelo_a_pista(Controlador, id_pista, id_vuelo, t))
        /\ ult' = Llamada("asignar_vuelo_a_pista", id_pista, TRUE, None)
        /\ UNCHANGED <<stop_event, hilo, pcs, hist>>

PistasActualizar ==
    \E t \in 0..MaxTiempo :
        LET r == actualizar_pistas(Controlador, t)
        IN  /\ Pone(r.c)
            /\ ult' = Llamada("actualizar_pistas", t, TRUE, r.completados)
            /\ UNCHANGED <<stop_event, hilo, pcs, hist>>

NextPistas ==
    \/ PistasAnadir
    \/ PistasAsignar
    \/ PistasActualizar

SpecPistas == Init /\ [][NextPistas]_vars

\* ------------------------------------------------- ticks that keep coming
\* The flights and runways are loaded once, with a runway in service, and no
\* flight is added afterwards; avanzar_minuto keeps being called as long as a
\* flight is not completed.
PistasConServicio ==
    {ps \in ListasPistas(MaxPistas, {0, 1}) : \E i \in DOMAIN ps : ps[i].habilitada # 0}

\* one call of avanzar_minuto by the driving context, run to its end
TickVivo ==
    LET r == avanzar_minuto(Controlador)
    IN  /\ MenuLibre
        /\ Cargado
        /\ tiempo_actual < MaxReloj
        /\ \E j \in DOMAIN vuelos_activos : vuelos_activos[j].estado # "COMPLETADO"
        /\ Pone(r.c)
        /\ ult' = Llamada("avanzar_minuto", None, r.ret, None)
        /\ hist' = TrasTick(hist, IF r.ret THEN 1 ELSE 0)
        /\ UNCHANGED <<stop_event, hilo, pcs>>

NextVivo ==
    \/ Inicializar(ListasVuelos(IdsVuelo, MaxVuelos, {0}), PistasConServicio)
    \/ TickVivo
    \/ FinalizarSimulacion

\* a tick that succeeds, seen from the clock alone: TickVivo is then enabled,
\* avanzar_minuto returns True, and line 165 adds 1 to the clock
RelojAvanza ==
    /\ MenuLibre
    /\ Cargado
    /\ en_simulacion
    /\ tiempo_actual < MaxReloj
    /\ \E j \in DOMAIN vuelos_activos : vuelos_activos[j].estado # "COMPLETADO"
    /\ tiempo_actual' = tiempo_actual + 1

\* the driving context keeps calling avanzar_minuto: as long as a tick can
\* succeed, one is made in the end
SpecVivo == Init /\ [][NextVivo]_vars /\ WF_tiempo_actual(RelojAvanza)

\* ---------------------------------------------------------------- C1
\* C1: the clock equals the number of calls of avanzar_minuto that returned True
\* since the controller was built: each successful tick adds exactly 1 to it and
\* nothing else changes it.
C1_RelojCuentaTicks == tiempo_actual = hist.ticks

C1_Testigo ==
    /\ hist.ticks = 2
    /\ tiempo_actual = 2
    /\ ult = Llamada("avanzar_minuto", None, TRUE, None)

\* ---------------------------------------------------------------- C2
\* C2: the calls of avanzar_minuto of the menu and of the clock thread act as if
\* they ran one after the other: every call that returned True has added 1 to
\* the clock, no flight has been assigned twice, and no runway has lost its
\* occupant to another assignment (a flight in ASIGNADO holds a runway).
C2_TicksEnSerie ==
    /\ (\A x \in Contextos : pcs[x].pc # "escribe") => tiempo_actual = hist.ticks
    /\ \A i \in DOMAIN vuelos_activos :
          Cardinality({k \in DOMAIN eventos :
                          /\ eventos[k].ev = "ASIGNACION"
                          /\ eventos[k].id_vuelo = vuelos_activos[i].id_vuelo}) <= 1
    /\ \A i \in DOMAIN vuelos_activos :
          vuelos_activos[i].estado = "ASIGNADO" =>
              \E k \in DOMAIN pistas : pistas[k].vuelo_actual = vuelos_activos[i].id_vuelo

\* ---------------------------------------------------------------- C3
\* C3: from the moment detener_reloj_real has set the event and cleared
\* en_simulacion, and until the clock is started again, en_simulacion is False
\* and no call of avanzar_minuto passes its test, whatever the thread was doing.
C3_ParadaEfectiva ==
    hist.parada => (~en_simulacion /\ ~hist.tras_parada)

\* ---------------------------------------------------------------- C4
\* C4: once finalizar_simulacion has returned, en_simulacion is False and no
\* call of avanzar_minuto passes its test, whatever is called afterwards, until
\* inicializar_sistema is called again.
C4_FinTerminal ==
    hist.finalizada => (~en_simulacion /\ ~hist.tras_fin)

\* ---------------------------------------------------------------- C5
\* C5: in every state in which en_simulacion is False (before inicializar_sistema
\* or after finalizar_simulacion) avanzar_minuto returns False and leaves the
\* controller, its flights, runways, queues, completed list and log as they are.
C5_TickParadoNoCambia ==
    ~en_simulacion => avanzar_minuto(Controlador) = [c |-> Controlador, ret |-> FALSE]

C5_Testigo ==
    /\ ult = Llamada("avanzar_minuto", None, FALSE, None)
    /\ hist.finalizada
    /\ cola_aterrizaje # <<>>
    /\ \E i \in DOMAIN pistas : ~pistas[i].libre /\ pistas[i].tiempo_liberacion <= tiempo_actual

\* ---------------------------------------------------------------- C6
\* C6: in every state, every runway is occupied (libre = False) exactly when it
\* names an occupant (vuelo_actual is not None).
C6_LibreSiiSinVuelo ==
    \A i \in DOMAIN pistas : (~pistas[i].libre) <=> (pistas[i].vuelo_actual # None)

C6_Testigo ==
    /\ \E i \in DOMAIN pistas : ~pistas[i].libre
    /\ \E j \in DOMAIN pistas : pistas[j].libre /\ pistas[j].operaciones_totales > 0

\* ---------------------------------------------------------------- C7
\* C7: a call of seleccionar_vuelo_para_pista(t) returns the best flight of the
\* landing queue when that queue is not empty, otherwise the best flight of the
\* take-off queue, and None when both are empty; it never returns a take-off
\* while a landing waits, and the two queues still hold the waiting flights in
\* the order they were inserted.
C7_AterrizajesPrimero ==
    ult.op = "seleccionar_vuelo_para_pista" =>
        LET r == ult.valor
            t == ult.arg
            ids == [i \in DOMAIN vuelos_activos |-> vuelos_activos[i].id_vuelo]
            EsAterrizaje(id) == VueloDe(Controlador, id).tipo = "ATERRIZAJE"
            EsDespegue(id) == VueloDe(Controlador, id).tipo = "DESPEGUE"
        IN  /\ cola_aterrizaje # <<>> =>
                /\ r = obtener_vuelo_prioritario(Controlador, cola_aterrizaje, t)
                /\ r \in Rango(cola_aterrizaje)
            /\ (cola_aterrizaje = <<>> /\ cola_despegue # <<>>) =>
                /\ r = obtener_vuelo_prioritario(Controlador, cola_despegue, t)
                /\ r \in Rango(cola_despegue)
            /\ (cola_aterrizaje = <<>> /\ cola_despegue = <<>>) => r = None
            /\ cola_aterrizaje = SelectSeq(ids, EsAterrizaje)
            /\ cola_despegue = SelectSeq(ids, EsDespegue)

C7_Testigo ==
    /\ ult.op = "seleccionar_vuelo_para_pista"
    /\ cola_aterrizaje # <<>>
    /\ cola_despegue # <<>>
    /\ ult.valor \in Rango(cola_aterrizaje)
    /\ \A a \in Rango(cola_aterrizaje), d \in Rango(cola_despegue) :
          /\ VueloDe(Controlador, a).prioridad < VueloDe(Controlador, d).prioridad
          /\ a > d

C9_EmergenciaPrimero_Original ==
    [][hist'.ticks = hist.ticks + 1 =>
        LET Pos(id) == CHOOSE k \in DOMAIN eventos' :
                          /\ eventos'[k].ev = "ASIGNACION"
                          /\ eventos'[k].id_vuelo = id
        IN  \A i, j \in DOMAIN vuelos_activos :
                ( /\ i < j
                  /\ vuelos_activos[i].estado = "EN_COLA"
                  /\ vuelos_activos[i].prioridad = 0
                  /\ vuelos_activos[j].estado = "EN_COLA"
                  /\ vuelos_activos[j].prioridad = PrioridadEmergencia
                  /\ vuelos_activos'[i].estado = "ASIGNADO" )
                => /\ vuelos_activos'[j].estado = "ASIGNADO"
                   /\ Pos(vuelos_activos[j].id_vuelo) < Pos(vuelos_activos[i].id_vuelo)
    ]_vars

\* C9, amended: the same, for a flight N that has no critical fuel when the
\* tick begins and a flight E that is of the kind of N or is a landing.
C9_EmergenciaPrimero ==
    [][hist'.ticks = hist.ticks + 1 =>
        LET Pos(id) == CHOOSE k \in DOMAIN eventos' :
                          /\ eventos'[k].ev = "ASIGNACION"
                          /\ eventos'[k].id_vuelo = id
        IN  \A i, j \in DOMAIN vuelos_activos :
                ( /\ i < j
                  /\ vuelos_activos[i].estado = "EN_COLA"
                  /\ vuelos_activos[i].prioridad = 0
                  /\ ~tiene_combustible_critico(vuelos_activos[i])
                  /\ vuelos_activos[j].estado = "EN_COLA"
                  /\ vuelos_activos[j].prioridad = PrioridadEmergencia
                  /\ \/ vuelos_activos[j].tipo = vuelos_activos[i].tipo
                     \/ vuelos_activos[j].tipo = "ATERRIZAJE"
                  /\ vuelos_activos'[i].estado = "ASIGNADO" )
                => /\ vuelos_activos'[j].estado = "ASIGNADO"
                   /\ Pos(vuelos_activos[j].id_vuelo) < Pos(vuelos_activos[i].id_vuelo)
    ]_vars

\* the emergency take-off E, inserted after the normal take-off N, holds a
\* runway and N still waits
C9_Testigo ==
    \E i, j \in DOMAIN vuelos_activos :
        /\ i < j
        /\ vuelos_activos[i].tipo = "DESPEGUE"
        /\ vuelos_activos[i].prioridad = 0
        /\ vuelos_activos[i].estado = "EN_COLA"
        /\ vuelos_activos[j].tipo = "DESPEGUE"
        /\ vuelos_activos[j].prioridad = PrioridadEmergencia
        /\ vuelos_activos[j].estado = "ASIGNADO"
        /\ \E k \in DOMAIN pistas : pistas[k].vuelo_actual = vuelos_activos[j].id_vuelo

\* --------------------------------------------------------------- C10
\* C10: in every successful tick, a waiting landing whose fuel is at most 5 when
\* the tick begins is assigned before every waiting landing whose fuel is above
\* 5 (the second is assigned in the tick only if the first is, and earlier); and
\* no waiting flight other than such a landing is assigned in a tick that
\* leaves such a landing waiting.
C10_CriticosPrimero ==
    [][hist'.ticks = hist.ticks + 1 =>
        LET Pos(id) == CHOOSE k \in DOMAIN eventos' :
                          /\ eventos'[k].ev = "ASIGNACION"
                          /\ eventos'[k].id_vuelo = id
            EnCola(i) == vuelos_activos[i].estado = "EN_COLA"
            Critico(i) ==
                /\ EnCola(i)
                /\ vuelos_activos[i].tipo = "ATERRIZAJE"
                /\ vuelos_activos[i].combustible # None
                /\ vuelos_activos[i].combustible <= 5
            Holgado(i) ==
                /\ EnCola(i)
                /\ vuelos_activos[i].tipo = "ATERRIZAJE"
                /\ vuelos_activos[i].combustible # None
                /\ vuelos_activos[i].combustible > 5
            Asignado(i) == EnCola(i) /\ vuelos_activos'[i].estado = "ASIGNADO"
        IN  /\ \A i, j \in DOMAIN vuelos_activos :
                  (Critico(i) /\ Holgado(j) /\ Asignado(j))
                  => /\ Asignado(i)
                     /\ Pos(vuelos_activos[i].id_vuelo) < Pos(vuelos_activos[j].id_vuelo)
            /\ \A i, j \in DOMAIN vuelos_activos :
                  (Critico(i) /\ ~Asignado(i) /\ EnCola(j) /\ ~Critico(j))
                  => ~Asignado(j)
    ]_vars

\* a landing escalated for its fuel holds a runway since the last tick, and an
\* emergency landing inserted before it, whose fuel was 6 in that tick, waits
C10_Testigo ==
    \E i, j \in DOMAIN vuelos_activos :
        /\ j < i
        /\ vuelos_activos[i].tipo = "ATERRIZAJE"
        /\ vuelos_activos[i].estado = "ASIGNADO"
        /\ vuelos_activos[i].tiempo_inicio = tiempo_actual - 1
        /\ vuelos_activos[i].combustible <= 5
        /\ \E k \in DOMAIN eventos :
              /\ eventos[k].ev = "EMERGENCIA"
              /\ eventos[k].id_vuelo = vuelos_activos[i].id_vuelo
        /\ vuelos_activos[j].tipo = "ATERRIZAJE"
        /\ vuelos_activos[j].estado = "EN_COLA"
        /\ vuelos_activos[j].prioridad = PrioridadEmergencia
        /\ vuelos_activos[j].combustible = 5

\* --------------------------------------------------------------- C11
\* C11: a runway whose habilitada is 0 is in no list obtener_pistas_libres(t)
\* returns, for any t, and in every state it is free, has no occupant, and its
\* operaciones_totales is 0.
C11_PistaDeshabilitada ==
    \A i \in DOMAIN pistas :
        pistas[i].habilitada = 0 =>
            /\ pistas[i].libre
            /\ pistas[i].vuelo_actual = None
            /\ pistas[i].operaciones_totales = 0
            /\ \A t \in 0..MaxTiempo :
                  ~Contiene(obtener_pistas_libres(Controlador, t), pistas[i].id_pista)

\* two ticks have run, a flight still waits, the runway in service is busy and
\* the other runway is out of service
C11_Testigo ==
    /\ tiempo_actual >= 2
    /\ cola_aterrizaje \o cola_despegue # <<>>
    /\ \E i, j \in DOMAIN pistas :
          /\ pistas[i].habilitada = 0
          /\ pistas[j].habilitada = 1
          /\ ~pistas[j].libre

\* --------------------------------------------------------------- C12
\* C12: a flight assigned in the tick of clock value t to a runway of hold time
\* d has tiempo_inicio = t (the time of its ASIGNACION line); while it is
\* ASIGNADO the clock is in t+1 .. t+d, the runway names it and is to be
\* released at t+d; once it is COMPLETADO its tiempo_fin is t+d and the clock
\* is past t+d.
C12_OcupacionYFin ==
    \A i \in DOMAIN vuelos_activos :
        LET v == vuelos_activos[i]
        IN  v.tiempo_inicio # None =>
                LET p == pistas[IndicePista(Controlador, v.pista_asignada)]
                IN  /\ v.estado \in {"ASIGNADO", "COMPLETADO"}
                    /\ \E k \in DOMAIN eventos :
                          /\ eventos[k].ev = "ASIGNACION"
                          /\ eventos[k].id_vuelo = v.id_vuelo
                          /\ eventos[k].t = v.tiempo_inicio
                    /\ v.estado = "ASIGNADO" =>
                          /\ ~p.libre
                          /\ p.vuelo_actual = v.id_vuelo
                          /\ p.tiempo_liberacion = v.tiempo_inicio + p.tiempo_uso
                          /\ v.tiempo_inicio < tiempo_actual
                          /\ tiempo_actual <= v.tiempo_inicio + p.tiempo_uso
                          /\ v.tiempo_fin = None
                    /\ v.estado = "COMPLETADO" =>
                          /\ v.tiempo_fin = v.tiempo_inicio + p.tiempo_uso
                          /\ v.tiempo_fin < tiempo_actual

\* a flight assigned at 0 to a runway of hold time 2 is completed at 2
C12_Testigo ==
    \E i \in DOMAIN vuelos_activos :
        /\ vuelos_activos[i].estado = "COMPLETADO"
        /\ vuelos_activos[i].tiempo_inicio = 0
        /\ vuelos_activos[i].tiempo_fin = 2
        /\ \E k \in DOMAIN pistas :
              /\ pistas[k].id_pista = vuelos_activos[i].pista_asignada
              /\ pistas[k].tiempo_uso = 2

\* --------------------------------------------------------------- C13
\* C13: no step lowers the priority of a flight: each step leaves it as it is
\* or raises it.
C13_PrioridadNoBaja ==
    [][\A i \in DOMAIN vuelos_activos :
          vuelos_activos'[i].prioridad >= vuelos_activos[i].prioridad]_vars

\* a flight loaded with a priority below 2 has been escalated and then assigned
C13_Testigo ==
    \E i \in DOMAIN vuelos_activos :
        /\ vuelos_activos[i].prioridad = PrioridadEmergencia
        /\ vuelos_activos[i].estado # "EN_COLA"
        /\ \E k \in DOMAIN eventos :
              /\ eventos[k].ev = "EMERGENCIA"
              /\ eventos[k].id_vuelo = vuelos_activos[i].id_vuelo

\* --------------------------------------------------------------- C14
\* C14: in every state, _consumir_combustible_en_cola takes exactly 1 from the
\* fuel of every waiting landing whose fuel is above 0, leaves a fuel of 0 at 0,
\* and changes nothing else; and no fuel is ever negative.
C14_ConsumoConSuelo ==
    LET d == consumir_combustible_en_cola(Controlador)
    IN  /\ DOMAIN d.vuelos_activos = DOMAIN vuelos_activos
        /\ \A i \in DOMAIN vuelos_activos :
              LET v == vuelos_activos[i]
                  EnEspera == /\ v.tipo = "ATERRIZAJE"
                              /\ v.estado = "EN_COLA"
                              /\ v.combustible # None
              IN  /\ v.combustible # None => v.combustible >= 0
                  /\ (EnEspera /\ v.combustible > 0) =>
                        d.vuelos_activos[i] = [v EXCEPT !.combustible = v.combustible - 1]
                  /\ (EnEspera /\ v.combustible = 0) => d.vuelos_activos[i] = v
                  /\ ~EnEspera => d.vuelos_activos[i] = v
        /\ [d EXCEPT !.vuelos_activos = vuelos_activos] = Controlador

\* a landing has waited through two ticks with its fuel at 0 after the first
C14_Testigo ==
    /\ tiempo_actual >= 2
    /\ \E i \in DOMAIN vuelos_activos :
          /\ vuelos_activos[i].estado = "EN_COLA"
          /\ vuelos_activos[i].tipo = "ATERRIZAJE"
          /\ vuelos_activos[i].combustible = 0
          /\ \E k \in DOMAIN eventos :
                /\ eventos[k].ev = "EN_COLA"
                /\ eventos[k].id_vuelo = vuelos_activos[i].id_vuelo
                /\ eventos[k].t = 0

\* --------------------------------------------------------------- C15
\* C15: a step never changes the fuel of a flight that is not waiting after it:
\* the tick that assigns a flight does not decay it, and no later step does.
C15_CombustibleFijo ==
    [][\A i \in DOMAIN vuelos_activos :
          vuelos_activos'[i].estado # "EN_COLA" =>
              vuelos_activos'[i].combustible = vuelos_activos[i].combustible]_vars

\* a landing assigned with fuel left is still on its runway a tick later
C15_Testigo ==
    \E i \in DOMAIN vuelos_activos :
        /\ vuelos_activos[i].estado = "ASIGNADO"
        /\ vuelos_activos[i].tipo = "ATERRIZAJE"
        /\ vuelos_activos[i].combustible > 0
        /\ vuelos_activos[i].tiempo_inicio + 2 = tiempo_actual

\* --------------------------------------------------------------- C16
\* C16: a call of completar_vuelo for a flight that is already COMPLETADO, with
\* any time, leaves tiempo_inicio and tiempo_fin of the flight as they were and
\* leaves exactly one entry for it in vuelos_completados.
C16_CompletarIdempotente ==
    [][\A i \in DOMAIN vuelos_activos :
          ( /\ vuelos_activos[i].estado = "COMPLETADO"
            /\ ult'.op = "completar_vuelo"
            /\ ult'.arg = vuelos_activos[i].id_vuelo )
          => /\ vuelos_activos'[i].tiempo_inicio = vuelos_activos[i].tiempo_inicio
             /\ vuelos_activos'[i].tiempo_fin = vuelos_activos[i].tiempo_fin
             /\ Cardinality({k \in DOMAIN vuelos_completados' :
                    vuelos_completados'[k] = vuelos_activos[i].id_vuelo}) = 1
    ]_vars

\* --------------------------------------------------------------- C17
\* C17: after any calls of añadir_vuelo (each identifier once), asignar_vuelo
\* and completar_vuelo, the total of contar_vuelos_por_estado is the number of
\* flights added.
C17_TotalEsAnadidos ==
    contar_vuelos_por_estado(Controlador).total = hist.anadidos

\* two flights added, one assigned, and the other completed by the last call
C17_Testigo ==
    /\ hist.anadidos = 2
    /\ ult.op = "completar_vuelo"
    /\ \E i, j \in DOMAIN vuelos_activos :
          /\ vuelos_activos[i].estado = "ASIGNADO"
          /\ vuelos_activos[j].estado = "COMPLETADO"
    /\ contar_vuelos_por_estado(Controlador).total = 2

\* --------------------------------------------------------------- C18
\* C18: there is never more than one clock thread alive, and a call of
\* iniciar_reloj_real made while a thread is alive changes neither the
\* controller, nor the event, nor the thread.
C18_UnSoloHilo ==
    [][/\ hist'.vivos <= 1
       /\ (hilo.estado = "vivo" /\ ult'.op = "iniciar_reloj_real" /\ ult' # ult) =>
             /\ UNCHANGED <<tiempo_actual, en_simulacion, stop_event, vuelos_activos,
                            cola_aterrizaje, cola_despegue, vuelos_completados,
                            pistas, eventos, hilo>>
             /\ hist'.vivos = hist.vivos
    ]_vars

\* the clock was stopped, and the call of iniciar_reloj_real that followed
\* found the thread still alive
C18_Testigo ==
    /\ ult = Llamada("iniciar_reloj_real", None, FALSE, None)
    /\ hilo.estado = "vivo"
    /\ stop_event
    /\ hist.parada
    /\ hist.vivos = 1

\* --------------------------------------------------------------- C19
\* C19: a successful tick sets to 2 the priority of exactly the flights that,
\* when it begins, wait (EN_COLA), are landings, have critical fuel and a
\* priority below 2; the priority of every other flight, assigned or completed
\* flights among them, is after the tick what it was before.
C19_EscalaSoloEnEspera ==
    [][hist'.ticks = hist.ticks + 1 =>
        \A i \in DOMAIN vuelos_activos :
            LET v == vuelos_activos[i]
            IN  vuelos_activos'[i].prioridad =
                    IF /\ v.estado = "EN_COLA"
                       /\ v.tipo = "ATERRIZAJE"
                       /\ v.combustible # None
                       /\ v.combustible <= 5
                       /\ v.prioridad < 2
                    THEN 2
                    ELSE v.prioridad
    ]_vars

\* --------------------------------------------------------------- C20
\* C20: every COMPLETADO line of the log carries the time at which its flight
\* was completed and the runway that flight held, and every completed flight
\* has exactly one COMPLETADO line.
C20_EventoCompletado ==
    /\ \A k \in DOMAIN eventos :
          eventos[k].ev = "COMPLETADO" =>
              LET v == VueloDe(Controlador, eventos[k].id_vuelo)
              IN  /\ eventos[k].t = v.tiempo_fin
                  /\ eventos[k].id_pista = v.pista_asignada
    /\ \A i \in DOMAIN vuelos_activos :
          vuelos_activos[i].estado = "COMPLETADO" =>
              Cardinality({k \in DOMAIN eventos :
                              /\ eventos[k].ev = "COMPLETADO"
                              /\ eventos[k].id_vuelo = vuelos_activos[i].id_vuelo}) = 1


\* ---------------------------------------------------------------- C21
\* C21: once finalizar_simulacion has returned, en_simulacion is False, and the
\* number of its FIN_SIMULACION line is the number of flights completed in the
\* run: no flight is completed and no COMPLETADO line is written after that
\* line, also when the clock thread was alive at the call.
C21_FinCuentaTodos ==
    hist.finalizada =>
        /\ ~en_simulacion
        /\ \A k \in DOMAIN eventos :
              eventos[k].ev = "FIN_SIMULACION" =>
                  /\ eventos[k].n = Len(vuelos_completados)
                  /\ eventos[k].n =
                        Cardinality({i \in DOMAIN vuelos_activos :
                                        vuelos_activos[i].estado = "COMPLETADO"})
                  /\ \A j \in DOMAIN eventos : j > k => eventos[j].ev # "COMPLETADO"

\* ---------------------------------------------------------------- C22
\* C22: when inicializar_sistema returns, on a controller never loaded or on one
\* that finalizar_simulacion stopped, en_simulacion is True, the clock is 0, and
\* each queue holds exactly the flights of its kind that were supplied, in the
\* order in which they were supplied.
C22_InicializarDejaListo ==
    [][(~en_simulacion /\ en_simulacion') =>
          LET vs == ult'.arg
              DeTipo(tipo) ==
                  LET sel == SelectSeq(vs, LAMBDA v : v.tipo = tipo)
                  IN  [i \in DOMAIN sel |-> sel[i].id_vuelo]
          IN  /\ ult'.op = "inicializar_sistema"
              /\ tiempo_actual' = 0
              /\ cola_aterrizaje' = DeTipo("ATERRIZAJE")
              /\ cola_despegue' = DeTipo("DESPEGUE")]_vars

\* ---------------------------------------------------------------- C23
\* C23: a call avanzar_n_minutos(n) with no other thread at work makes exactly n
\* successful ticks when en_simulacion is True and n > 0 (the clock grows by n,
\* the controller is the one n calls of avanzar_minuto leave, en_simulacion
\* stays True), and makes none and changes nothing when en_simulacion is False
\* or n <= 0.
C23_AvanzaNExactos ==
    [][(ult'.op = "avanzar_n_minutos" /\ hist'.fines = hist.fines) =>
          LET n == ult'.arg
              Veces[k \in 0..MaxN] ==
                  IF k = 0 THEN Controlador ELSE avanzar_minuto(Veces[k - 1]).c
          IN  IF en_simulacion /\ n > 0
              THEN /\ tiempo_actual' = tiempo_actual + n
                   /\ en_simulacion'
                   /\ hist'.ticks = hist.ticks + n
                   /\ ult'.valor = n
                   /\ vuelos_activos' = Veces[n].vuelos_activos
                   /\ cola_aterrizaje' = Veces[n].cola_aterrizaje
                   /\ cola_despegue' = Veces[n].cola_despegue
                   /\ vuelos_completados' = Veces[n].vuelos_completados
                   /\ pistas' = Veces[n].pistas
                   /\ eventos' = Veces[n].eventos
              ELSE /\ UNCHANGED <<tiempo_actual, en_simulacion, vuelos_activos,
                                  cola_aterrizaje, cola_despegue, vuelos_completados,
                                  pistas, eventos>>
                   /\ hist'.ticks = hist.ticks
                   /\ ult'.valor = 0]_vars

\* avanzar_n_minutos(MaxN) has returned on a running controller: it made MaxN
\* ticks, and a flight that was assigned by the first of them is completed
C23_Testigo ==
    /\ ult = Llamada("avanzar_n_minutos", MaxN, TRUE, MaxN)
    /\ en_simulacion
    /\ tiempo_actual >= MaxN
    /\ \E i \in DOMAIN vuelos_activos :
          /\ vuelos_activos[i].estado = "COMPLETADO"
          /\ vuelos_activos[i].tiempo_fin = tiempo_actual - 1

\* ---------------------------------------------------------------- C24
\* C24: when a file holds a row that cannot be converted, only that row is left
\* out: leer_vuelos and leer_pistas return every row that can be converted,
\* before and after it, in the order of the file.
C24_SoloSeSaltaLaMala ==
    ult.op = "opcion_cargar_datos" =>
        LET buenos == SelectSeq(ult.arg.vuelos, LAMBDA d : Vuelo_from_dict(d).ok)
            buenas == SelectSeq(ult.arg.pistas, LAMBDA d : Pista_from_dict(d).ok)
        IN  /\ ult.valor.vuelos = [i \in DOMAIN buenos |-> Vuelo_from_dict(buenos[i]).valor]
            /\ ult.valor.pistas = [i \in DOMAIN buenas |-> Pista_from_dict(buenas[i]).valor]

\* ---------------------------------------------------------------- C25
\* C25 as stated: the mean wait of the report is taken over every completed
\* flight whose start and expected time are both known, each one giving
\* max(0, tiempo_inicio - previsto): a flight that started before its expected
\* time is a sample of 0 and is counted.
C25_MediaConCeros_Original ==
    ult.op = "generar_informe" =>
        LET cuenta(i) ==
                /\ vuelos_activos[i].estado = "COMPLETADO"
                /\ get_tiempo_previsto(vuelos_activos[i]) # None
                /\ vuelos_activos[i].tiempo_inicio # None
            Suma[k \in 0..Len(vuelos_activos)] ==
                IF k = 0 THEN 0
                ELSE Suma[k - 1] +
                     (IF cuenta(k)
                      THEN Max0(vuelos_activos[k].tiempo_inicio
                                - get_tiempo_previsto(vuelos_activos[k]))
                      ELSE 0)
            n == Cardinality({i \in DOMAIN vuelos_activos : cuenta(i)})
        IN  /\ ult.valor.espera_muestras = n
            /\ ult.valor.espera_suma = Suma[Len(vuelos_activos)]
            /\ ult.valor.espera_media = Decimas(Suma[Len(vuelos_activos)], n)

\* C25, amended: the mean wait of the report is taken over the completed flights
\* whose start and expected time are both known and that did not start before
\* their expected time, each one giving tiempo_inicio - previsto; a flight that
\* started before its expected time is not a sample and is not counted.  The
\* mean is the sum of the samples divided by their number, and 0 with no sample.
C25_MediaSinAdelantados ==
    ult.op = "generar_informe" =>
        LET cuenta(i) ==
                /\ vuelos_activos[i].estado = "COMPLETADO"
                /\ get_tiempo_previsto(vuelos_activos[i]) # None
                /\ vuelos_activos[i].tiempo_inicio # None
                /\ vuelos_activos[i].tiempo_inicio >= get_tiempo_previsto(vuelos_activos[i])
            Suma[k \in 0..Len(vuelos_activos)] ==
                IF k = 0 THEN 0
                ELSE Suma[k - 1] +
                     (IF cuenta(k)
                      THEN vuelos_activos[k].tiempo_inicio
                           - get_tiempo_previsto(vuelos_activos[k])
                      ELSE 0)
            n == Cardinality({i \in DOMAIN vuelos_activos : cuenta(i)})
        IN  /\ ult.valor.espera_muestras = n
            /\ ult.valor.espera_suma = Suma[Len(vuelos_activos)]
            /\ ult.valor.espera_media = Decimas(Suma[Len(vuelos_activos)], n)

\* the report was written with two flights completed, one that started two
\* minutes before its expected time and one that waited a minute: the mean is
\* 1.0, over one sample
C25_Testigo ==
    /\ ult.op = "generar_informe"
    /\ ult.valor.vuelos_atendidos = 2
    /\ ult.valor.espera_muestras = 1
    /\ ult.valor.espera_media = 10
    /\ \E i \in DOMAIN vuelos_activos :
          /\ vuelos_activos[i].estado = "COMPLETADO"
          /\ vuelos_activos[i].tiempo_inicio = 0
          /\ get_tiempo_previsto(vuelos_activos[i]) = 2

\* ---------------------------------------------------------------- C26
\* C26: in every tick, at the moment _asignar_vuelos_a_pistas runs, every runway
\* that obtener_pistas_libres returns is free and has no occupant, because step
\* 1 of the same tick has released every runway whose tiempo_liberacion has
\* come; so a flight that loses its runway in a tick is COMPLETADO after it.
C26_LiberaAntesDeAsignar ==
    [][hist'.ticks = hist.ticks + 1 =>
          LET c1 == actualizar_emergencias(LiberarPistas(Controlador))
              libres == obtener_pistas_libres(c1, tiempo_actual)
          IN  /\ \A k \in DOMAIN libres :
                    LET p == c1.pistas[IndicePista(c1, libres[k])]
                    IN  p.libre /\ p.vuelo_actual = None
              /\ \A i \in DOMAIN pistas :
                    (pistas[i].vuelo_actual # None
                       /\ pistas'[i].vuelo_actual # pistas[i].vuelo_actual) =>
                        \E j \in DOMAIN vuelos_activos' :
                            /\ vuelos_activos'[j].id_vuelo = pistas[i].vuelo_actual
                            /\ vuelos_activos'[j].estado = "COMPLETADO"]_vars

\* a runway was released and assigned again in the same tick: its former
\* occupant was completed at the minute at which its occupant was assigned
C26_Testigo ==
    /\ ult = Llamada("avanzar_minuto", None, TRUE, None)
    /\ \E i \in DOMAIN pistas, a, b \in DOMAIN vuelos_activos :
          /\ pistas[i].vuelo_actual = vuelos_activos[b].id_vuelo
          /\ vuelos_activos[b].estado = "ASIGNADO"
          /\ vuelos_activos[b].tiempo_inicio = tiempo_actual - 1
          /\ vuelos_activos[a].estado = "COMPLETADO"
          /\ vuelos_activos[a].pista_asignada = pistas[i].id_pista
          /\ vuelos_activos[a].tiempo_fin = tiempo_actual - 1

\* ---------------------------------------------------------------- C27
\* C27: with A runways available and W flights waiting when
\* _asignar_vuelos_a_pistas starts, the tick makes exactly min(A, W)
\* assignments, every one of a waiting flight to an available runway, no runway
\* and no flight taking part in two of them; after the tick either no flight
\* is EN_COLA or no runway in service is free.
C27_AsignaCuantoPuede ==
    [][hist'.ticks = hist.ticks + 1 =>
          LET c1 == actualizar_emergencias(LiberarPistas(Controlador))
              libres == obtener_pistas_libres(c1, tiempo_actual)
              enCola == {c1.vuelos_activos[i].id_vuelo : i \in
                            {j \in DOMAIN c1.vuelos_activos :
                                c1.vuelos_activos[j].estado = "EN_COLA"}}
              A == Len(libres)
              W == Cardinality(enCola)
              nuevas == {k \in DOMAIN eventos' :
                            k > Len(c1.eventos) /\ eventos'[k].ev = "ASIGNACION"}
          IN  /\ Cardinality(nuevas) = IF A < W THEN A ELSE W
              /\ \A k \in nuevas :
                    /\ eventos'[k].id_vuelo \in enCola
                    /\ Contiene(libres, eventos'[k].id_pista)
                    /\ \E i \in DOMAIN pistas' :
                          /\ pistas'[i].id_pista = eventos'[k].id_pista
                          /\ pistas'[i].vuelo_actual = eventos'[k].id_vuelo
                    /\ \E j \in DOMAIN vuelos_activos' :
                          /\ vuelos_activos'[j].id_vuelo = eventos'[k].id_vuelo
                          /\ vuelos_activos'[j].estado = "ASIGNADO"
                          /\ vuelos_activos'[j].tiempo_inicio = tiempo_actual
              /\ \A k1, k2 \in nuevas :
                    k1 # k2 => /\ eventos'[k1].id_vuelo # eventos'[k2].id_vuelo
                               /\ eventos'[k1].id_pista # eventos'[k2].id_pista
              /\ Cardinality({j \in DOMAIN vuelos_activos' :
                                 /\ vuelos_activos'[j].estado = "ASIGNADO"
                                 /\ vuelos_activos'[j].tiempo_inicio = tiempo_actual})
                 = Cardinality(nuevas)
              /\ \/ \A j \in DOMAIN vuelos_activos' : vuelos_activos'[j].estado # "EN_COLA"
                 \/ \A i \in DOMAIN pistas' :
                       pistas'[i].habilitada = 0 \/ ~pistas'[i].libre]_vars

\* one tick assigned two flights to the two runways
C27_Testigo ==
    /\ ult = Llamada("avanzar_minuto", None, TRUE, None)
    /\ Len(pistas) = 2
    /\ Len(vuelos_activos) = 2
    /\ pistas[1].vuelo_actual # None
    /\ pistas[2].vuelo_actual # None
    /\ pistas[1].vuelo_actual # pistas[2].vuelo_actual
    /\ \A j \in DOMAIN vuelos_activos :
          /\ vuelos_activos[j].estado = "ASIGNADO"
          /\ vuelos_activos[j].tiempo_inicio = tiempo_actual - 1

\* ---------------------------------------------------------------- C28
\* C28: actualizar_pistas(t) releases exactly the runways that are occupied and
\* whose tiempo_liberacion is at most t (libre True, vuelo_actual and
\* tiempo_liberacion None), returns exactly the ids of the flights that held
\* them, and leaves every other runway, and operaciones_totales of every
\* runway, as they were.
C28_LiberaSoloLasVencidas ==
    [][ult'.op = "actualizar_pistas" =>
          LET t == ult'.arg
              vencidas == {i \in DOMAIN pistas :
                              /\ ~pistas[i].libre
                              /\ pistas[i].tiempo_liberacion # None
                              /\ pistas[i].tiempo_liberacion <= t}
          IN  /\ DOMAIN pistas' = DOMAIN pistas
              /\ \A i \in DOMAIN pistas :
                    /\ pistas'[i].operaciones_totales = pistas[i].operaciones_totales
                    /\ IF i \in vencidas
                       THEN pistas'[i] = [pistas[i] EXCEPT !.libre = TRUE,
                                                           !.vuelo_actual = None,
                                                           !.tiempo_liberacion = None]
                       ELSE pistas'[i] = pistas[i]
              /\ Len(ult'.valor) = Cardinality(vencidas)
              /\ Rango(ult'.valor) = {pistas[i].vuelo_actual : i \in vencidas}
              /\ UNCHANGED <<vuelos_activos, cola_aterrizaje, cola_despegue,
                             vuelos_completados, tiempo_actual>>]_vars

\* actualizar_pistas has released one runway that had been used and returned
\* its flight, and has left alone a runway whose time has not come
C28_Testigo ==
    /\ ult.op = "actualizar_pistas"
    /\ Len(ult.valor) = 1
    /\ \E i, j \in DOMAIN pistas :
          /\ pistas[i].libre
          /\ pistas[i].operaciones_totales >= 1
          /\ ~pistas[j].libre
          /\ pistas[j].vuelo_actual # None
          /\ pistas[j].tiempo_liberacion > ult.arg

\* ---------------------------------------------------------------- C29
\* C29: in every state reached by inicializar_sistema, añadir_vuelo and ticks
\* made one after the other, with flights under different ids, no flight holds
\* two runways, and a flight is ASIGNADO exactly when it holds one runway, which
\* is the runway of its pista_asignada; the occupant of a runway is a flight of
\* the table.
C29_ExclusionMutua ==
    /\ \A j \in DOMAIN vuelos_activos :
          LET f == vuelos_activos[j]
              suyas == {k \in DOMAIN pistas : pistas[k].vuelo_actual = f.id_vuelo}
          IN  /\ Cardinality(suyas) <= 1
              /\ f.estado = "ASIGNADO" <=> Cardinality(suyas) = 1
              /\ \A k \in suyas :
                    /\ pistas[k].id_pista = f.pista_asignada
                    /\ ~pistas[k].libre
    /\ \A k \in DOMAIN pistas :
          pistas[k].vuelo_actual # None => TieneVuelo(Controlador, pistas[k].vuelo_actual)

\* ---------------------------------------------------------------- C30
\* C30: whatever estado a flight had when añadir_vuelo received it, in every
\* state the flight is in a queue exactly when its estado is EN_COLA, it is
\* then in the queue of its tipo and not in the other, and it is there once.
C30_EnColaSiiEsperando ==
    \A j \in DOMAIN vuelos_activos :
        LET f == vuelos_activos[j]
            veces(cola) == Cardinality({k \in DOMAIN cola : cola[k] = f.id_vuelo})
            propia == IF f.tipo = "ATERRIZAJE" THEN cola_aterrizaje ELSE cola_despegue
            ajena  == IF f.tipo = "ATERRIZAJE" THEN cola_despegue ELSE cola_aterrizaje
        IN  /\ veces(ajena) = 0
            /\ veces(propia) <= 1
            /\ f.estado = "EN_COLA" <=> veces(propia) = 1

\* ---------------------------------------------------------------- C31
\* C31: with the flights loaded once under different ids, a runway in service,
\* no flight added afterwards and avanzar_minuto called again and again, every
\* flight is COMPLETADO in the end, unless the simulation is stopped first: no
\* take-off and no flight of low priority waits for ever.
C31_TodosTerminan ==
    Cargado ~> (\/ ~en_simulacion
                \/ \A j \in DOMAIN vuelos_activos : vuelos_activos[j].estado = "COMPLETADO")

\* every flight is completed, among them a take-off of priority 0 that had to
\* wait behind a landing
C31_Testigo ==
    /\ en_simulacion
    /\ Len(vuelos_activos) = MaxVuelos
    /\ \A j \in DOMAIN vuelos_activos : vuelos_activos[j].estado = "COMPLETADO"
    /\ \E j \in DOMAIN vuelos_activos :
          /\ vuelos_activos[j].tipo = "DESPEGUE"
          /\ vuelos_activos[j].prioridad = 0
          /\ vuelos_activos[j].tiempo_inicio > 0

\* ---------------------------------------------------------------- C32
\* C32: over inicializar_sistema, añadir_vuelo and ticks made one after the
\* other, with different ids, the estado of a flight only goes from EN_COLA to
\* ASIGNADO and from ASIGNADO to COMPLETADO; a flight is assigned at most once;
\* tiempo_inicio, pista_asignada and tiempo_fin are written once and keep their
\* value, and tiempo_inicio <= tiempo_fin.
C32_CicloHaciaDelante ==
    [][\A i \in DOMAIN vuelos_activos :
          LET v == vuelos_activos[i]
              w == vuelos_activos'[i]
          IN  /\ \/ w.estado = v.estado
                 \/ v.estado = "EN_COLA" /\ w.estado = "ASIGNADO"
                 \/ v.estado = "ASIGNADO" /\ w.estado = "COMPLETADO"
              /\ v.tiempo_inicio # None => w.tiempo_inicio = v.tiempo_inicio
              /\ v.pista_asignada # None => w.pista_asignada = v.pista_asignada
              /\ v.tiempo_fin # None => w.tiempo_fin = v.tiempo_fin
              /\ w.tiempo_inicio # None <=> w.estado \in {"ASIGNADO", "COMPLETADO"}
              /\ w.pista_asignada # None <=> w.estado \in {"ASIGNADO", "COMPLETADO"}
              /\ w.tiempo_fin # None <=> w.estado = "COMPLETADO"
              /\ w.tiempo_fin # None => w.tiempo_inicio <= w.tiempo_fin
              /\ Cardinality({k \in DOMAIN eventos' :
                                 /\ eventos'[k].ev = "ASIGNACION"
                                 /\ eventos'[k].id_vuelo = w.id_vuelo}) <= 1
    ]_vars

\* --------------------------------------------------------------- C33
\* C33: in every state reached by inicializar_sistema, añadir_vuelo and ticks
\* made one after the other, with flights under different ids that are added
\* EN_COLA, the counts of contar_vuelos_por_estado split the flights of the
\* table: en_cola + en_operacion + completados = total.
C33_CuentasParten ==
    LET n == contar_vuelos_por_estado(Controlador)
    IN  n.en_cola + n.en_operacion + n.completados = n.total

\* after a tick one flight holds a runway and the other is done: no flight
\* waits, and the two counts make the total
C33_Testigo ==
    LET n == contar_vuelos_por_estado(Controlador)
    IN  /\ ult.op = "avanzar_minuto"
        /\ n.en_cola = 0
        /\ n.en_operacion = 1
        /\ n.completados = 1
        /\ n.total = MaxVuelos

\* --------------------------------------------------------------- C34
\* C34: the operaciones_totales of a runway never goes down and goes up by one
\* for each assignment made on the runway, so that in every state reached by
\* ticks made one after the other the sum of operaciones_totales over the
\* runways is the number of flights that are ASIGNADO or COMPLETADO.
C34_OperacionesCuentanVuelos ==
    [][/\ \A i \in DOMAIN pistas :
             /\ i \in DOMAIN pistas'
             /\ pistas'[i].operaciones_totales >= pistas[i].operaciones_totales
             /\ pistas'[i].operaciones_totales - pistas[i].operaciones_totales =
                   Cardinality({k \in DOMAIN eventos' \ DOMAIN eventos :
                                   /\ eventos'[k].ev = "ASIGNACION"
                                   /\ eventos'[k].id_pista = pistas[i].id_pista})
       /\ ult'.op = "avanzar_minuto" =>
          contar_operaciones_totales(Controlador)' =
             Cardinality({j \in DOMAIN vuelos_activos' :
                             vuelos_activos'[j].estado \in {"ASIGNADO", "COMPLETADO"}})
    ]_vars
=============================================================================
